---- MODULE Spec2Model ----
(***************************************************************************)
(* magic_migrate: the version chain (one trait impl per struct, each       *)
(* naming the struct it migrates from) and the two resolution functions    *)
(* Migrate::from_str_migrations and TryMigrate::try_from_str_migrations.   *)
(*                                                                         *)
(* A program is a set of trait impls (the define phase) that the compiler  *)
(* accepts or rejects by the traits' bounds; once accepted the impls are   *)
(* fixed and calls of the two functions run on them.  A call recurses from *)
(* the target struct toward its predecessors, one frame per struct, and    *)
(* unwinds through the frames' `.map(..)` closures.                        *)
(*                                                                         *)
(* Structs are the numbers 1..NumVersions.  Serde's Deserialize and the    *)
(* user's From / TryFrom impls are not part of the repository; an input    *)
(* string is therefore identified by what they do on it: the structs whose *)
(* deserializer accepts it (acc) and the links whose TryFrom fails on the  *)
(* value derived from it (bad).  Values and errors are symbolic terms that *)
(* record the struct that decoded them and every conversion applied.       *)
(***************************************************************************)
EXTENDS Integers, Sequences, FiniteSets, TLC

\* Number of struct names a program may use.
NumVersions == 3

\* Frames the call stack holds on top of the longest well-founded chain
\* before the recursion overflows it.
StackSlack == 2

\* Number of threads that call the functions at the same time.
NumThreads == 2

\* Number of key = value pairs on one struct the derive is run on.
MaxPairs == 3

Versions == 1..NumVersions

StackLimit == NumVersions + StackSlack

VARIABLES
    impls,      \* struct -> its trait impl: [kind, prior]
    pc,         \* "define" | "idle" | "decode" | "return" | "done" | "aborted"
    fn,         \* the function called: "from_str_migrations" | "try_from_str_migrations"
    target,     \* the struct the caller invoked the function on (Self of the first frame)
    input,      \* the &str argument, the same in every frame
    stack,      \* Self of each active frame, the innermost last
    ret,        \* the value the innermost finished frame returned
    decodeLog,  \* structs whose Deserialize ran in this call, in order
    convLog,    \* links whose From / TryFrom conversion ran in this call, in order
    procs,      \* thread -> the call it is running, for calls made concurrently
    derive,     \* the derive macro at work on one struct definition
    emitted,    \* struct -> the TryMigrate impl a macro emitted for it
    expansion,  \* the expansion of one invocation of a declarative macro
    magic       \* one error value on its way through MagicError

\* The state of the other parts of the repository, which no step of a
\* program's impls and calls touches.
others == <<procs, derive, emitted, expansion, magic>>

\* The state of the program's impls and of the single call on them.
callVars == <<impls, pc, fn, target, input, stack, ret, decodeLog, convLog>>

vars == <<impls, pc, fn, target, input, stack, ret, decodeLog, convLog,
          procs, derive, emitted, expansion, magic>>

NoImpl == [kind |-> "none", prior |-> 0]

NoInput == [acc |-> {}, bad |-> {}]

Pending == [tag |-> "Pending"]

\* No thread is calling.
NoProcs == <<>>

\* The derive macro is not running.
NoDerive == [pc |-> "off"]

\* No macro has emitted an impl.
NoEmitted == <<>>

\* No declarative macro is being expanded.
NoExpansion == [pc |-> "off"]

\* No error value is being wrapped.
NoMagic == [pc |-> "off"]

Implemented(v) == impls[v].kind # "none"

\* `type From` / `type TryFrom` of v's impl.
Prior(v) == impls[v].prior

\* TypeId::of::<Self>() == TypeId::of::<Self::From>()
IsRoot(v) == Prior(v) = v

\* The structs v's chain runs through: v, its predecessor, and so on.
RECURSIVE Reach(_, _)
Reach(v, fuel) ==
    IF fuel = 0 \/ ~Implemented(v) \/ IsRoot(v)
    THEN {v}
    ELSE {v} \cup Reach(Prior(v), fuel - 1)

Lineage(v) == Reach(v, NumVersions)

\* Links of v's chain whose conversion is a user-written TryFrom, which may
\* fail.  A Migrate struct converts by From; a root converts from itself by
\* the reflexive impl of the standard library; neither can fail.
FallibleLinks(v) ==
    {w \in Lineage(v) : impls[w].kind = "TryMigrate" /\ ~IsRoot(w)}

\* The inputs a call on t distinguishes.
Inputs(t) ==
    [acc : SUBSET Lineage(t), bad : SUBSET FallibleLinks(t)]

(***************************************************************************)
(* Registration: one trait impl per struct.                                *)
(***************************************************************************)

\* impl Migrate for v { type From = p; .. }
RegisterMigrate(v, p) ==
    /\ pc = "define"
    /\ ~Implemented(v)
    /\ impls' = [impls EXCEPT ![v] = [kind |-> "Migrate", prior |-> p]]
    /\ UNCHANGED <<pc, fn, target, input, stack, ret, decodeLog, convLog>>
    /\ UNCHANGED others

\* impl TryMigrate for v { type TryFrom = p; type Error = ..; .. }
RegisterTryMigrate(v, p) ==
    /\ pc = "define"
    /\ ~Implemented(v)
    /\ impls' = [impls EXCEPT ![v] = [kind |-> "TryMigrate", prior |-> p]]
    /\ UNCHANGED <<pc, fn, target, input, stack, ret, decodeLog, convLog>>
    /\ UNCHANGED others

\* The bounds the traits put on an impl's predecessor: `type From: Migrate`
\* and `type TryFrom: TryMigrate`.  Every Migrate struct is TryMigrate by the
\* blanket impl, so a TryMigrate struct may name a Migrate one, not the
\* other way round.
MigrateBound(v) ==
    impls[v].kind = "Migrate" => impls[Prior(v)].kind = "Migrate"

TryMigrateBound(v) ==
    impls[v].kind = "TryMigrate" => impls[Prior(v)].kind # "none"

\* The program compiles: every impl satisfies its trait's bounds.
Compile ==
    /\ pc = "define"
    /\ \E v \in Versions : Implemented(v)
    /\ \A v \in Versions :
          Implemented(v) =>
             /\ Prior(v) \in Versions
             /\ MigrateBound(v)
             /\ TryMigrateBound(v)
    /\ pc' = "idle"
    /\ UNCHANGED <<impls, fn, target, input, stack, ret, decodeLog, convLog>>
    /\ UNCHANGED others

(***************************************************************************)
(* The collaborators: serde's Deserialize and the structs' conversions.    *)
(***************************************************************************)

\* Self::deserialize(Self::deserializer(input)) on struct v.
Deserialize(v, i) ==
    IF v \in i.acc
    THEN [tag |-> "Ok", val |-> [ver |-> v, origin |-> v, via |-> <<>>]]
    ELSE [tag |-> "Err"]

\* Into::into of a predecessor's value: From<Self::From> for struct w.
IntoSelf(w, val) ==
    [ver |-> w, origin |-> val.origin, via |-> Append(val.via, w)]

\* Bug: the converter hands its argument back without converting it.
TryFromPriorKeeps(w, before, i) ==
    IF w \in i.bad /\ w \in FallibleLinks(w)
    THEN [tag |-> "Err",
          err |-> [link |-> w, origin |-> before.origin, widened |-> <<>>]]
    ELSE [tag |-> "Ok", val |-> before]

\* Bug: the converter of a From link, whose error type is Infallible, yields
\* an error on the inputs some other link fails on.
TryFromPriorNeverInfallible(w, before, i) ==
    IF \/ w \in i.bad /\ w \in FallibleLinks(w)
       \/ i.bad # {} /\ impls[w].kind = "Migrate"
    THEN [tag |-> "Err",
          err |-> [link |-> w, origin |-> before.origin, widened |-> <<>>]]
    ELSE [tag |-> "Ok", val |-> IntoSelf(w, before)]

\* Self::try_from(before) on struct w.
TryFromPrior(w, before, i) ==
    IF w \in i.bad /\ w \in FallibleLinks(w)
    THEN [tag |-> "Err",
          err |-> [link |-> w, origin |-> before.origin, widened |-> <<>>]]
    ELSE [tag |-> "Ok", val |-> IntoSelf(w, before)]

\* Bug: the error is passed on without the conversion into w's error type.
IntoErrorMissing(w, e) == e

\* Into::into of an error into struct w's TryMigrate::Error.
IntoError(w, e) ==
    [e EXCEPT !.widened = Append(@, w)]

(***************************************************************************)
(* A call, frame by frame.                                                 *)
(***************************************************************************)

Self == stack[Len(stack)]

Caller == stack[Len(stack) - 1]

Pop == SubSeq(stack, 1, Len(stack) - 1)

\* V::from_str_migrations(input) or V::try_from_str_migrations(input), called
\* from outside.  from_str_migrations is a method of Migrate only;
\* try_from_str_migrations is there for every struct with either impl.
Call(f, t, i) ==
    /\ pc = "idle"
    /\ Implemented(t)
    /\ f = "from_str_migrations" => impls[t].kind = "Migrate"
    /\ i \in Inputs(t)
    /\ pc' = "decode"
    /\ fn' = f
    /\ target' = t
    /\ input' = i
    /\ stack' = <<t>>
    /\ ret' = Pending
    /\ decodeLog' = <<>>
    /\ convLog' = <<>>
    /\ UNCHANGED impls
    /\ UNCHANGED others

\* Bug: the Ok branch runs the struct's conversion on the value it decoded.
FromStrDecodeOkConverts ==
    /\ pc = "decode"
    /\ fn = "from_str_migrations"
    /\ Deserialize(Self, input).tag = "Ok"
    /\ ret' = [tag |-> "Some", val |-> IntoSelf(Self, Deserialize(Self, input).val)]
    /\ decodeLog' = Append(decodeLog, Self)
    /\ pc' = "return"
    /\ UNCHANGED <<impls, fn, target, input, stack, convLog>>
    /\ UNCHANGED others

\* Migrate::from_str_migrations: `if let Ok(instance) = .. { Some(instance) }`
FromStrDecodeOk ==
    /\ pc = "decode"
    /\ fn = "from_str_migrations"
    /\ Deserialize(Self, input).tag = "Ok"
    /\ ret' = [tag |-> "Some", val |-> Deserialize(Self, input).val]
    /\ decodeLog' = Append(decodeLog, Self)
    /\ pc' = "return"
    /\ UNCHANGED <<impls, fn, target, input, stack, convLog>>
    /\ UNCHANGED others

\* Bug: the root test compares what the struct and its predecessor make of
\* the input in place of their identity: a struct whose predecessor rejects
\* the input as it does itself is taken for the root.
FromStrRootNoneByShape ==
    /\ pc = "decode"
    /\ fn = "from_str_migrations"
    /\ Deserialize(Self, input).tag = "Err"
    /\ Deserialize(Prior(Self), input) = Deserialize(Self, input)
    /\ ret' = [tag |-> "None"]
    /\ decodeLog' = Append(decodeLog, Self)
    /\ pc' = "return"
    /\ UNCHANGED <<impls, fn, target, input, stack, convLog>>
    /\ UNCHANGED others

\* `else if TypeId::of::<Self>() == TypeId::of::<Self::From>() { return None; }`
FromStrRootNone ==
    /\ pc = "decode"
    /\ fn = "from_str_migrations"
    /\ Deserialize(Self, input).tag = "Err"
    /\ IsRoot(Self)
    /\ ret' = [tag |-> "None"]
    /\ decodeLog' = Append(decodeLog, Self)
    /\ pc' = "return"
    /\ UNCHANGED <<impls, fn, target, input, stack, convLog>>
    /\ UNCHANGED others

\* Bug: the else branch calls Self::from_str_migrations, not Self::From's.
FromStrRecurseSelf ==
    /\ pc = "decode"
    /\ fn = "from_str_migrations"
    /\ Deserialize(Self, input).tag = "Err"
    /\ ~IsRoot(Self)
    /\ Len(stack) < StackLimit
    /\ stack' = Append(stack, Self)
    /\ decodeLog' = Append(decodeLog, Self)
    /\ UNCHANGED <<impls, pc, fn, target, input, ret, convLog>>
    /\ UNCHANGED others

\* `else { <Self::From as Migrate>::from_str_migrations(input) .. }`: the call.
FromStrRecurse ==
    /\ pc = "decode"
    /\ fn = "from_str_migrations"
    /\ Deserialize(Self, input).tag = "Err"
    /\ ~IsRoot(Self)
    /\ Len(stack) < StackLimit
    /\ stack' = Append(stack, Prior(Self))
    /\ decodeLog' = Append(decodeLog, Self)
    /\ UNCHANGED <<impls, pc, fn, target, input, ret, convLog>>
    /\ UNCHANGED others

\* Bug: the `.map(Into::into)` is missing.
FromStrMapIntoMissing(w, r) == r

\* `.map(Into::into)` in struct w's frame, on what its predecessor returned.
FromStrMapInto(w, r) ==
    IF r.tag = "Some"
    THEN [tag |-> "Some", val |-> IntoSelf(w, r.val)]
    ELSE [tag |-> "None"]

\* Bug: the frame rewires the struct's predecessor to the version that
\* decoded, to shorten the next call.
FromStrMapRelinks ==
    /\ pc = "return"
    /\ fn = "from_str_migrations"
    /\ Len(stack) > 1
    /\ ret' = FromStrMapInto(Caller, ret)
    /\ convLog' = IF ret.tag = "Some" THEN Append(convLog, Caller) ELSE convLog
    /\ stack' = Pop
    /\ impls' = IF ret.tag = "Some"
                THEN [impls EXCEPT ![Caller].prior = ret.val.origin]
                ELSE impls
    /\ UNCHANGED <<pc, fn, target, input, decodeLog>>
    /\ UNCHANGED others

\* The predecessor's frame returns into its caller's `.map(Into::into)`.
FromStrMap ==
    /\ pc = "return"
    /\ fn = "from_str_migrations"
    /\ Len(stack) > 1
    /\ ret' = FromStrMapInto(Caller, ret)
    /\ convLog' = IF ret.tag = "Some" THEN Append(convLog, Caller) ELSE convLog
    /\ stack' = Pop
    /\ UNCHANGED <<impls, pc, fn, target, input, decodeLog>>
    /\ UNCHANGED others

\* Bug: the Ok branch runs the struct's conversion on the value it decoded.
TryFromStrDecodeOkConverts ==
    /\ pc = "decode"
    /\ fn = "try_from_str_migrations"
    /\ Deserialize(Self, input).tag = "Ok"
    /\ ret' = [tag |-> "SomeOk", val |-> IntoSelf(Self, Deserialize(Self, input).val)]
    /\ decodeLog' = Append(decodeLog, Self)
    /\ pc' = "return"
    /\ UNCHANGED <<impls, fn, target, input, stack, convLog>>
    /\ UNCHANGED others

\* try_from_str_migrations that lets the predecessor chain answer first and
\* keeps the struct's own decoding as the fallback.
TryFromStrDecodeOkOldest ==
    /\ pc = "decode"
    /\ fn = "try_from_str_migrations"
    /\ Deserialize(Self, input).tag = "Ok"
    /\ decodeLog' = Append(decodeLog, Self)
    /\ IF ~IsRoot(Self) /\ \E v \in Lineage(Prior(Self)) : Deserialize(v, input).tag = "Ok"
       THEN /\ stack' = Append(stack, Prior(Self))
            /\ UNCHANGED <<pc, ret>>
       ELSE /\ ret' = [tag |-> "SomeOk", val |-> Deserialize(Self, input).val]
            /\ pc' = "return"
            /\ UNCHANGED stack
    /\ UNCHANGED <<impls, fn, target, input, convLog>>
    /\ UNCHANGED others

\* Bug: a root hands the value it decoded to its own converter, the link
\* from the root to itself being run like any other.
TryFromStrDecodeOkRootConverts ==
    /\ pc = "decode"
    /\ fn = "try_from_str_migrations"
    /\ Deserialize(Self, input).tag = "Ok"
    /\ ret' = [tag |-> "SomeOk",
               val |-> IF IsRoot(Self)
                       THEN IntoSelf(Self, Deserialize(Self, input).val)
                       ELSE Deserialize(Self, input).val]
    /\ convLog' = IF IsRoot(Self) THEN Append(convLog, Self) ELSE convLog
    /\ decodeLog' = Append(decodeLog, Self)
    /\ pc' = "return"
    /\ UNCHANGED <<impls, fn, target, input, stack>>
    /\ UNCHANGED others

\* TryMigrate::try_from_str_migrations:
\* `if let Ok(instance) = .. { Some(Ok(instance)) }`
TryFromStrDecodeOk ==
    /\ pc = "decode"
    /\ fn = "try_from_str_migrations"
    /\ Deserialize(Self, input).tag = "Ok"
    /\ ret' = [tag |-> "SomeOk", val |-> Deserialize(Self, input).val]
    /\ decodeLog' = Append(decodeLog, Self)
    /\ pc' = "return"
    /\ UNCHANGED <<impls, fn, target, input, stack, convLog>>
    /\ UNCHANGED others

\* Bug: the root's decoding failure is handed to the caller as the error.
TryFromStrRootErr ==
    /\ pc = "decode"
    /\ fn = "try_from_str_migrations"
    /\ Deserialize(Self, input).tag = "Err"
    /\ IsRoot(Self)
    /\ ret' = [tag |-> "SomeErr",
               err |-> [link |-> Self, origin |-> Self, widened |-> <<>>]]
    /\ decodeLog' = Append(decodeLog, Self)
    /\ pc' = "return"
    /\ UNCHANGED <<impls, fn, target, input, stack, convLog>>
    /\ UNCHANGED others

\* Bug: the root test is missing from the None branch.
TryFromStrRootNoneAnywhere ==
    /\ pc = "decode"
    /\ fn = "try_from_str_migrations"
    /\ Deserialize(Self, input).tag = "Err"
    /\ ret' = [tag |-> "None"]
    /\ decodeLog' = Append(decodeLog, Self)
    /\ pc' = "return"
    /\ UNCHANGED <<impls, fn, target, input, stack, convLog>>
    /\ UNCHANGED others

\* `else if TypeId::of::<Self>() == TypeId::of::<Self::TryFrom>() { return None; }`
TryFromStrRootNone ==
    /\ pc = "decode"
    /\ fn = "try_from_str_migrations"
    /\ Deserialize(Self, input).tag = "Err"
    /\ IsRoot(Self)
    /\ ret' = [tag |-> "None"]
    /\ decodeLog' = Append(decodeLog, Self)
    /\ pc' = "return"
    /\ UNCHANGED <<impls, fn, target, input, stack, convLog>>
    /\ UNCHANGED others

\* Bug: the else branch calls the predecessor's predecessor.
TryFromStrRecurseSkips ==
    /\ pc = "decode"
    /\ fn = "try_from_str_migrations"
    /\ Deserialize(Self, input).tag = "Err"
    /\ ~IsRoot(Self)
    /\ Len(stack) < StackLimit
    /\ stack' = Append(stack, Prior(Prior(Self)))
    /\ decodeLog' = Append(decodeLog, Self)
    /\ UNCHANGED <<impls, pc, fn, target, input, ret, convLog>>
    /\ UNCHANGED others

\* `else { <Self::TryFrom as TryMigrate>::try_from_str_migrations(input) .. }`
TryFromStrRecurse ==
    /\ pc = "decode"
    /\ fn = "try_from_str_migrations"
    /\ Deserialize(Self, input).tag = "Err"
    /\ ~IsRoot(Self)
    /\ Len(stack) < StackLimit
    /\ stack' = Append(stack, Prior(Self))
    /\ decodeLog' = Append(decodeLog, Self)
    /\ UNCHANGED <<impls, pc, fn, target, input, ret, convLog>>
    /\ UNCHANGED others

\* Bug: `.ok()` in place of the error handling; a failure becomes None.
TryFromStrMapInnerSwallows(w, r, i) ==
    CASE r.tag = "None" -> [tag |-> "None"]
      [] r.tag = "SomeErr" -> [tag |-> "None"]
      [] r.tag = "SomeOk" ->
            LET c == TryFromPrior(w, r.val, i)
            IN  IF c.tag = "Ok"
                THEN [tag |-> "SomeOk", val |-> c.val]
                ELSE [tag |-> "None"]

\* Bug: the predecessor's error is dropped and this link's converter is run
\* anyway, on the value its predecessor would hand it.
TryFromStrMapInnerRetries(w, r, i) ==
    CASE r.tag = "None" -> [tag |-> "None"]
      [] r.tag = "SomeErr" ->
            LET c == TryFromPrior(w, [ver |-> Prior(w), origin |-> r.err.origin,
                                      via |-> <<>>], i)
            IN  IF c.tag = "Ok"
                THEN [tag |-> "SomeOk", val |-> c.val]
                ELSE [tag |-> "SomeErr", err |-> IntoError(w, c.err)]
      [] r.tag = "SomeOk" ->
            LET c == TryFromPrior(w, r.val, i)
            IN  IF c.tag = "Ok"
                THEN [tag |-> "SomeOk", val |-> c.val]
                ELSE [tag |-> "SomeErr", err |-> IntoError(w, c.err)]

\* Bug: the closure stops at `inner.map_err(Into::into)` and hands the
\* predecessor's value back unconverted.
TryFromStrMapInnerForgets(w, r, i) ==
    CASE r.tag = "None" -> [tag |-> "None"]
      [] r.tag = "SomeErr" -> [tag |-> "SomeErr", err |-> IntoError(w, r.err)]
      [] r.tag = "SomeOk" -> r

\* The closure of `.map(|inner| inner.map_err(Into::into).and_then(|before|
\* Self::try_from(before).map_err(Into::into)))` in struct w's frame.
TryFromStrMapInner(w, r, i) ==
    CASE r.tag = "None" -> [tag |-> "None"]
      [] r.tag = "SomeErr" -> [tag |-> "SomeErr", err |-> IntoError(w, r.err)]
      [] r.tag = "SomeOk" ->
            LET c == TryFromPrior(w, r.val, i)
            IN  IF c.tag = "Ok"
                THEN [tag |-> "SomeOk", val |-> c.val]
                ELSE [tag |-> "SomeErr", err |-> IntoError(w, c.err)]

\* Unwinding of a stack overflow: the call never returns.
Aborted == [tag |-> "Aborted"]

\* Migrate::from_str_migrations of struct v as a function of the input, the
\* frame being the depth-th of the call.
RECURSIVE FromStrFrame(_, _, _)
FromStrFrame(v, i, depth) ==
    IF Deserialize(v, i).tag = "Ok"
    THEN [tag |-> "Some", val |-> Deserialize(v, i).val]
    ELSE IF IsRoot(v)
    THEN [tag |-> "None"]
    ELSE IF depth >= StackLimit
    THEN Aborted
    ELSE LET r == FromStrFrame(Prior(v), i, depth + 1)
         IN  IF r = Aborted THEN Aborted ELSE FromStrMapInto(v, r)

\* V::from_str_migrations(input), called from outside.
FromStrMigrations(v, i) == FromStrFrame(v, i, 1)

\* TryMigrate::try_from_str_migrations of struct v as a function of the
\* input, the frame being the depth-th of the call.
RECURSIVE TryFromStrFrame(_, _, _)
TryFromStrFrame(v, i, depth) ==
    IF Deserialize(v, i).tag = "Ok"
    THEN [tag |-> "SomeOk", val |-> Deserialize(v, i).val]
    ELSE IF IsRoot(v)
    THEN [tag |-> "None"]
    ELSE IF depth >= StackLimit
    THEN Aborted
    ELSE LET r == TryFromStrFrame(Prior(v), i, depth + 1)
         IN  IF r = Aborted THEN Aborted ELSE TryFromStrMapInner(v, r, i)

\* V::try_from_str_migrations(input), called from outside.
TryFromStrMigrations(v, i) == TryFromStrFrame(v, i, 1)

\* What a call of function f on struct t with input i returns.
Resolve(f, t, i) ==
    IF f = "from_str_migrations"
    THEN FromStrMigrations(t, i)
    ELSE TryFromStrMigrations(t, i)

\* Bug: when the struct's converter fails on the value handed to it, the
\* frame falls back on the decoders of the versions before the one that
\* decoded.
TryFromStrMapBacktracks ==
    /\ pc = "return"
    /\ fn = "try_from_str_migrations"
    /\ Len(stack) > 1
    /\ IF /\ ret.tag = "SomeOk"
          /\ TryFromPrior(Caller, ret.val, input).tag = "Err"
          /\ ~IsRoot(Self)
          /\ Len(stack) < StackLimit
       THEN /\ stack' = Append(stack, Prior(Self))
            /\ pc' = "decode"
            /\ convLog' = Append(convLog, Caller)
            /\ UNCHANGED ret
       ELSE /\ ret' = TryFromStrMapInner(Caller, ret, input)
            /\ convLog' = IF ret.tag = "SomeOk" THEN Append(convLog, Caller) ELSE convLog
            /\ stack' = Pop
            /\ UNCHANGED pc
    /\ UNCHANGED <<impls, fn, target, input, decodeLog>>
    /\ UNCHANGED others

\* The predecessor's frame returns into its caller's `.map(..)`.
TryFromStrMap ==
    /\ pc = "return"
    /\ fn = "try_from_str_migrations"
    /\ Len(stack) > 1
    /\ ret' = TryFromStrMapInner(Caller, ret, input)
    /\ convLog' = IF ret.tag = "SomeOk" THEN Append(convLog, Caller) ELSE convLog
    /\ stack' = Pop
    /\ UNCHANGED <<impls, pc, fn, target, input, decodeLog>>
    /\ UNCHANGED others

\* A frame of a chain that never reaches a root calls its predecessor with
\* no stack left: the process dies.
StackOverflow ==
    /\ pc = "decode"
    /\ Deserialize(Self, input).tag = "Err"
    /\ ~IsRoot(Self)
    /\ Len(stack) >= StackLimit
    /\ pc' = "aborted"
    /\ decodeLog' = Append(decodeLog, Self)
    /\ UNCHANGED <<impls, fn, target, input, stack, ret, convLog>>
    /\ UNCHANGED others

\* The first frame returns to the outside caller.
Return ==
    /\ pc = "return"
    /\ Len(stack) = 1
    /\ pc' = "done"
    /\ stack' = <<>>
    /\ UNCHANGED <<impls, fn, target, input, ret, decodeLog, convLog>>
    /\ UNCHANGED others

\* The outside caller has taken the result; the next call may start.
Drop ==
    /\ pc = "done"
    /\ pc' = "idle"
    /\ fn' = "-"
    /\ target' = 0
    /\ input' = NoInput
    /\ ret' = Pending
    /\ decodeLog' = <<>>
    /\ convLog' = <<>>
    /\ UNCHANGED <<impls, stack>>
    /\ UNCHANGED others

Init ==
    /\ impls = [v \in Versions |-> NoImpl]
    /\ pc = "define"
    /\ fn = "-"
    /\ target = 0
    /\ input = NoInput
    /\ stack = <<>>
    /\ ret = Pending
    /\ decodeLog = <<>>
    /\ convLog = <<>>
    /\ procs = NoProcs
    /\ derive = NoDerive
    /\ emitted = NoEmitted
    /\ expansion = NoExpansion
    /\ magic = NoMagic

Next ==
    \/ \E v \in Versions, p \in Versions : RegisterMigrate(v, p)
    \/ \E v \in Versions, p \in Versions : RegisterTryMigrate(v, p)
    \/ Compile
    \/ /\ pc = "idle"
       /\ \E t \in Versions : \E i \in Inputs(t) :
             \E f \in {"from_str_migrations", "try_from_str_migrations"} : Call(f, t, i)
    \/ FromStrDecodeOk
    \/ FromStrRootNone
    \/ FromStrRecurse
    \/ FromStrMap
    \/ TryFromStrDecodeOk
    \/ TryFromStrRootNone
    \/ TryFromStrRecurse
    \/ TryFromStrMap
    \/ StackOverflow
    \/ Return
    \/ Drop

Spec == Init /\ [][Next]_vars

\* The frames of a running call always get their turn: the functions are
\* straight-line code on one thread.  Nothing obliges anyone to write
\* another impl, to compile, or to call.
Step ==
    \/ FromStrDecodeOk
    \/ FromStrRootNone
    \/ FromStrRecurse
    \/ FromStrMap
    \/ TryFromStrDecodeOk
    \/ TryFromStrRootNone
    \/ TryFromStrRecurse
    \/ TryFromStrMap
    \/ StackOverflow
    \/ Return

FairSpec == Spec /\ WF_vars(Step)

(***************************************************************************)
(* Properties.  What a call should return is computed here from the chain  *)
(* and the input alone, not from the frames.                               *)
(***************************************************************************)

\* The struct d links before t.
RECURSIVE Up(_, _)
(***************************************************************************)
(* Calls made concurrently.  The two functions take `input: &str`, have no *)
(* statics and no interior mutability: all the state of a call is in its   *)
(* own frames, and the impls are fixed at compile time.  Each thread runs  *)
(* the frames of its call one step at a time, in any order with the steps  *)
(* of the other threads.                                                   *)
(***************************************************************************)

Threads == 1..NumThreads

IdleThread ==
    [pc |-> "idle", fn |-> "-", target |-> 0, input |-> NoInput,
     stack |-> <<>>, ret |-> Pending]

\* The two structs of a program like tests/pass/two_structs_simple.rs: a root and
\* a struct that migrates from it, with impls of kinds k1 and k2.
TwoStructs(k1, k2) ==
    [v \in Versions |->
        IF v = 1 THEN [kind |-> k1, prior |-> 1]
        ELSE IF v = 2 THEN [kind |-> k2, prior |-> 1]
        ELSE NoImpl]

ThreadSelf(t) == procs[t].stack[Len(procs[t].stack)]

ThreadCaller(t) == procs[t].stack[Len(procs[t].stack) - 1]

\* Thread t calls V::from_str_migrations(input) or
\* V::try_from_str_migrations(input).
ThreadCall(t, f, v, i) ==
    /\ procs[t].pc = "idle"
    /\ Implemented(v)
    /\ f = "from_str_migrations" => impls[v].kind = "Migrate"
    /\ i \in Inputs(v)
    /\ procs' = [procs EXCEPT ![t] =
                    [pc |-> "decode", fn |-> f, target |-> v, input |-> i,
                     stack |-> <<v>>, ret |-> Pending]]
    /\ UNCHANGED <<callVars, derive, emitted, expansion, magic>>

\* The innermost frame of thread t's call runs its `if let Ok(instance) ..
\* else if TypeId .. else ..` up to the return or the call of the predecessor.
ThreadDecode(t) ==
    /\ procs[t].pc = "decode"
    /\ LET p == procs[t]
           s == ThreadSelf(t)
           d == Deserialize(s, p.input)
       IN  procs' = [procs EXCEPT ![t] =
              IF d.tag = "Ok"
              THEN [p EXCEPT !.pc = "return",
                             !.ret = IF p.fn = "from_str_migrations"
                                     THEN [tag |-> "Some", val |-> d.val]
                                     ELSE [tag |-> "SomeOk", val |-> d.val]]
              ELSE IF IsRoot(s)
              THEN [p EXCEPT !.pc = "return", !.ret = [tag |-> "None"]]
              ELSE [p EXCEPT !.stack = Append(@, Prior(s))]]
    /\ UNCHANGED <<callVars, derive, emitted, expansion, magic>>

\* Bug: the predecessor's result goes through a slot the threads share, and
\* the closure picks up what another call of the same function left there.
ThreadMapShared(t) ==
    /\ procs[t].pc = "return"
    /\ Len(procs[t].stack) > 1
    /\ \E u \in Threads :
          /\ procs[u].fn = procs[t].fn
          /\ procs[u].ret # Pending
          /\ LET p == procs[t]
                 r == procs[u].ret
             IN  procs' = [procs EXCEPT ![t] =
                    [p EXCEPT !.stack = SubSeq(@, 1, Len(@) - 1),
                              !.ret = IF p.fn = "from_str_migrations"
                                      THEN FromStrMapInto(ThreadCaller(t), r)
                                      ELSE TryFromStrMapInner(ThreadCaller(t), r, p.input)]]
    /\ UNCHANGED <<callVars, derive, emitted, expansion, magic>>

\* The predecessor's frame of thread t's call returns into its caller's
\* `.map(..)`.
ThreadMap(t) ==
    /\ procs[t].pc = "return"
    /\ Len(procs[t].stack) > 1
    /\ LET p == procs[t]
       IN  procs' = [procs EXCEPT ![t] =
              [p EXCEPT !.stack = SubSeq(@, 1, Len(@) - 1),
                        !.ret = IF p.fn = "from_str_migrations"
                                THEN FromStrMapInto(ThreadCaller(t), p.ret)
                                ELSE TryFromStrMapInner(ThreadCaller(t), p.ret, p.input)]]
    /\ UNCHANGED <<callVars, derive, emitted, expansion, magic>>

\* The first frame of thread t's call returns to the thread.
ThreadReturn(t) ==
    /\ procs[t].pc = "return"
    /\ Len(procs[t].stack) = 1
    /\ procs' = [procs EXCEPT ![t] = [@ EXCEPT !.pc = "done", !.stack = <<>>]]
    /\ UNCHANGED <<callVars, derive, emitted, expansion, magic>>

\* Thread t has taken the result; it may call again.
ThreadDrop(t) ==
    /\ procs[t].pc = "done"
    /\ procs' = [procs EXCEPT ![t] = IdleThread]
    /\ UNCHANGED <<callVars, derive, emitted, expansion, magic>>

\* A compiled program of two structs, every thread idle.
ConcInit ==
    /\ \E k1, k2 \in {"Migrate", "TryMigrate"} : impls = TwoStructs(k1, k2)
    /\ \A v \in Versions : Implemented(v) => MigrateBound(v) /\ TryMigrateBound(v)
    /\ pc = "idle"
    /\ fn = "-"
    /\ target = 0
    /\ input = NoInput
    /\ stack = <<>>
    /\ ret = Pending
    /\ decodeLog = <<>>
    /\ convLog = <<>>
    /\ procs = [t \in Threads |-> IdleThread]
    /\ derive = NoDerive
    /\ emitted = NoEmitted
    /\ expansion = NoExpansion
    /\ magic = NoMagic

ConcNext ==
    \E t \in Threads :
        \/ \E v \in Versions : \E i \in Inputs(v) :
              \E f \in {"from_str_migrations", "try_from_str_migrations"} :
                 ThreadCall(t, f, v, i)
        \/ ThreadDecode(t)
        \/ ThreadMap(t)
        \/ ThreadReturn(t)
        \/ ThreadDrop(t)

ConcSpec == ConcInit /\ [][ConcNext]_vars

(***************************************************************************)
(* #[derive(TryMigrate)] on one struct: Container::from_ast reads the      *)
(* struct's attributes, create_try_migrate turns the Container into the    *)
(* impl.  The attributes of the struct are a list of key = value pairs;    *)
(* each pair says whether it goes on in the declaration of the pair before *)
(* it ("same") or opens a new #[try_migrate(..)] or #[serde(..)]           *)
(* declaration.  Every pair is well-formed: an identifier, `=`, a path.    *)
(***************************************************************************)

\* const NAMESPACE
NAMESPACE == "try_migrate"

\* KnownAttribute::iter(): the discriminants of ParsedAttribute, in order.
KnownAttribute == <<"prior", "error">>

IsKnown(key) == \E j \in 1..Len(KnownAttribute) : KnownAttribute[j] = key

\* Keys the crate docs name and KnownAttribute lacks.
OtherKeys == {"from", "deserializer"}

\* The struct the derive is on, and another struct.
Identity == "V2"

PriorPaths == {"None", Identity, "V1"}

ErrorPaths == {"E1", "E2"}

Pairs ==
    [key : {"prior"}, val : PriorPaths]
        \cup [key : {"error"}, val : ErrorPaths]
        \cup [key : OtherKeys, val : {"toml"}]

Elements ==
    {[key |-> p.key, val |-> p.val, open |-> o] :
        p \in Pairs, o \in {"same", NAMESPACE, "serde"}}

\* The attribute lists of a struct definition.
AttrLists ==
    {a \in UNION {[1..n -> Elements] : n \in 0..MaxPairs} :
        a # <<>> => a[1].open # "same"}

\* Option::None of maybe_prior and maybe_error.
NoPath == "-"

\* Index of the last pair of the declaration pair k - 1 of a belongs to.
RECURSIVE DeclEnd(_, _)
DeclEnd(a, k) ==
    IF k <= Len(a) /\ a[k].open = "same" THEN DeclEnd(a, k + 1) ELSE k - 1

\* The pairs of the first declaration of a, and what follows it.
FirstDecl(a) == SubSeq(a, 1, DeclEnd(a, 2))

AfterFirstDecl(a) == SubSeq(a, DeclEnd(a, 2) + 1, Len(a))

\* syn::Error of `impl Parse for KnownAttribute`.
UnknownAttribute(key) ==
    [msg |-> "Unknown try_migrate attribute", identity |-> key,
     valid_keys |-> KnownAttribute]

\* syn::Error of checked_set.
DuplicateDefinition(key) == [msg |-> "Duplicate definition for", key |-> key]

\* syn::Error of from_ast's last match.
MissingPrior == [msg |-> "Missing required attribute", key |-> KnownAttribute[1]]

\* The derive is handed a struct definition with attribute list a; from_ast
\* starts with maybe_prior and maybe_error empty.
FromAstBegin(a) ==
    /\ derive.pc = "start"
    /\ derive' = [pc |-> "attrs", input |-> a, attrs |-> a, parsed |-> <<>>,
                  maybe_prior |-> NoPath, maybe_error |-> NoPath,
                  result |-> Pending, output |-> Pending]
    /\ UNCHANGED <<callVars, procs, emitted, expansion, magic>>

\* `.filter(|attr| attr.path().is_ident(NAMESPACE))`: a declaration of
\* another macro or derive is passed over.
FromAstFilter ==
    /\ derive.pc = "attrs"
    /\ derive.attrs # <<>>
    /\ derive.attrs[1].open # NAMESPACE
    /\ derive' = [derive EXCEPT !.attrs = AfterFirstDecl(@)]
    /\ UNCHANGED <<callVars, procs, emitted, expansion, magic>>

\* The first of ps whose key `impl Parse for KnownAttribute` rejects.
FirstUnknown(ps) ==
    ps[CHOOSE j \in 1..Len(ps) :
          /\ ~IsKnown(ps[j].key)
          /\ \A k \in 1..(j - 1) : IsKnown(ps[k].key)]

\* Bug: a pair with an unknown key is dropped from the parsed list.
ParseArgsLenient(ps) ==
    [tag |-> "Ok", val |-> SelectSeq(ps, LAMBDA p : IsKnown(p.key))]

\* `attribute_ast.parse_args_with(Punctuated::parse_terminated)` on the pairs
\* of one declaration: all of them parsed, or the first parse error.
ParseArgs(ps) ==
    IF \E j \in 1..Len(ps) : ~IsKnown(ps[j].key)
    THEN [tag |-> "Err", err |-> UnknownAttribute(FirstUnknown(ps).key)]
    ELSE [tag |-> "Ok", val |-> ps]

\* `parse_args_with(..)?` fails: from_ast returns the parse error.
FromAstParseError ==
    /\ derive.pc = "attrs"
    /\ derive.attrs # <<>>
    /\ derive.attrs[1].open = NAMESPACE
    /\ ParseArgs(FirstDecl(derive.attrs)).tag = "Err"
    /\ derive' = [derive EXCEPT !.pc = "returned",
                                !.result = ParseArgs(FirstDecl(derive.attrs))]
    /\ UNCHANGED <<callVars, procs, emitted, expansion, magic>>

\* `parse_args_with(..)?` succeeds: the inner loop is entered with the
\* declaration's pairs.
FromAstParse ==
    /\ derive.pc = "attrs"
    /\ derive.attrs # <<>>
    /\ derive.attrs[1].open = NAMESPACE
    /\ ParseArgs(FirstDecl(derive.attrs)).tag = "Ok"
    /\ LET ps == ParseArgs(FirstDecl(derive.attrs)).val
       IN  derive' = [derive EXCEPT !.pc = IF ps = <<>> THEN "attrs" ELSE "set",
                                    !.parsed = ps,
                                    !.attrs = AfterFirstDecl(@)]
    /\ UNCHANGED <<callVars, procs, emitted, expansion, magic>>

\* The slot checked_set is handed for a key: maybe_prior or maybe_error.
Slot(key) == IF key = "prior" THEN "maybe_prior" ELSE "maybe_error"

\* Bug: checked_set overwrites a slot that is already set.
CheckedSetOverwrites(key, value, container) == [tag |-> "Ok", val |-> value]

\* checked_set(key, value, container): the Result and the slot's new value.
CheckedSet(key, value, container) ==
    IF container # NoPath
    THEN [tag |-> "Err", err |-> DuplicateDefinition(key)]
    ELSE [tag |-> "Ok", val |-> value]

\* `checked_set(..)?` on the next parsed pair fails: from_ast returns.
FromAstDuplicate ==
    /\ derive.pc = "set"
    /\ LET p == derive.parsed[1]
           r == CheckedSet(p.key, p.val, derive[Slot(p.key)])
       IN  /\ r.tag = "Err"
           /\ derive' = [derive EXCEPT !.pc = "returned", !.result = r]
    /\ UNCHANGED <<callVars, procs, emitted, expansion, magic>>

\* `checked_set(..)?` on the next parsed pair succeeds.
FromAstSet ==
    /\ derive.pc = "set"
    /\ LET p == derive.parsed[1]
           r == CheckedSet(p.key, p.val, derive[Slot(p.key)])
       IN  /\ r.tag = "Ok"
           /\ derive' = [derive EXCEPT
                 ![Slot(p.key)] = r.val,
                 !.parsed = Tail(@),
                 !.pc = IF Len(derive.parsed) = 1 THEN "attrs" ELSE "set"]
    /\ UNCHANGED <<callVars, procs, emitted, expansion, magic>>

\* Bug: `None` is left as the predecessor's path.
NormalizePriorKeepsNone(prior, identity) == prior

\* `if prior.get_ident().is_some_and(|ident| ident == "None")`
NormalizePrior(prior, identity) == IF prior = "None" THEN identity ELSE prior

\* Bug: a struct with an error and no prior is taken as the first of a chain.
FromAstMatchDefaultsPrior(prior, error, identity) ==
    IF prior = NoPath /\ error = NoPath
    THEN [tag |-> "Err", err |-> MissingPrior]
    ELSE IF error = NoPath
    THEN [tag |-> "Ok",
          val |-> [tag |-> "ErrorFromPrior", identity |-> identity, prior |-> prior]]
    ELSE [tag |-> "Ok",
          val |-> [tag |-> "Full", identity |-> identity,
                   prior |-> IF prior = NoPath THEN identity ELSE prior,
                   error |-> error]]

\* `match (maybe_prior, maybe_error)`
FromAstMatch(prior, error, identity) ==
    IF prior = NoPath
    THEN [tag |-> "Err", err |-> MissingPrior]
    ELSE IF error = NoPath
    THEN [tag |-> "Ok",
          val |-> [tag |-> "ErrorFromPrior", identity |-> identity, prior |-> prior]]
    ELSE [tag |-> "Ok",
          val |-> [tag |-> "Full", identity |-> identity, prior |-> prior,
                   error |-> error]]

\* The attributes are used up: `None` is replaced by the struct's own name
\* and from_ast returns the Container or the error for a missing prior.
FromAstReturn ==
    /\ derive.pc = "attrs"
    /\ derive.attrs = <<>>
    /\ LET prior == IF derive.maybe_prior = NoPath
                    THEN NoPath
                    ELSE NormalizePrior(derive.maybe_prior, Identity)
       IN  derive' = [derive EXCEPT
              !.pc = "returned",
              !.maybe_prior = prior,
              !.result = FromAstMatch(prior, derive.maybe_error, Identity)]
    /\ UNCHANGED <<callVars, procs, emitted, expansion, magic>>

\* The Container create_try_migrate destructures: identity, prior, and the
\* optional error and deserializer.  from_ast's Container has no
\* deserializer and has an error in its Full variant alone.
ContainerFields(c) ==
    [identity |-> c.identity, prior |-> c.prior,
     error |-> IF c.tag = "Full" THEN c.error ELSE NoPath,
     deserializer |-> NoPath]

\* `let from_none = prior.get_ident().is_some_and(|ident| ident == &identity)`
FromNone(c) == c.prior = c.identity

\* Bug: a struct without an explicit error gets MigrateError wherever it is
\* in the chain.
ErrorTypeAlwaysDefault(c) ==
    IF c.error # NoPath
    THEN [tag |-> "Path", path |-> c.error]
    ELSE [tag |-> "Path", path |-> "magic_migrate::MigrateError"]

\* `let error_type = ..`: the tokens of `type Error`.
ErrorType(c) ==
    IF c.error # NoPath
    THEN [tag |-> "Path", path |-> c.error]
    ELSE IF FromNone(c)
    THEN [tag |-> "Path", path |-> "magic_migrate::MigrateError"]
    ELSE [tag |-> "OfPrior"]

\* Bug: a struct without an explicit deserializer gets toml wherever it is
\* in the chain.
DeserializerFnAlwaysToml(c) ==
    IF c.deserializer # NoPath
    THEN [tag |-> "Path", path |-> c.deserializer]
    ELSE [tag |-> "Path", path |-> "toml::Deserializer::new"]

\* `let deserializer_fn = ..`: the tokens of the body of `fn deserializer`.
DeserializerFn(c) ==
    IF c.deserializer # NoPath
    THEN [tag |-> "Path", path |-> c.deserializer]
    ELSE IF FromNone(c)
    THEN [tag |-> "Path", path |-> "toml::Deserializer::new"]
    ELSE [tag |-> "OfPrior"]

\* `let code = quote::quote! { impl TryMigrate for #identity { .. } }`
CreateTryMigrate(c) ==
    [TryFrom |-> c.prior, Error |-> ErrorType(c), deserializer |-> DeserializerFn(c)]

\* try_migrate: the derive's output is the impl, or the compile error made
\* from the syn::Error.
TryMigrateDerive ==
    /\ derive.pc = "returned"
    /\ derive' = [derive EXCEPT
          !.pc = "expanded",
          !.output = IF derive.result.tag = "Ok"
                     THEN [tag |-> "impl",
                           code |-> CreateTryMigrate(ContainerFields(derive.result.val))]
                     ELSE [tag |-> "compile_error", err |-> derive.result.err]]
    /\ UNCHANGED <<callVars, procs, emitted, expansion, magic>>

\* The derive is about to run on a struct definition.
DeriveInit ==
    /\ impls = [v \in Versions |-> NoImpl]
    /\ pc = "define"
    /\ fn = "-"
    /\ target = 0
    /\ input = NoInput
    /\ stack = <<>>
    /\ ret = Pending
    /\ decodeLog = <<>>
    /\ convLog = <<>>
    /\ procs = NoProcs
    /\ derive = [pc |-> "start"]
    /\ emitted = NoEmitted
    /\ expansion = NoExpansion
    /\ magic = NoMagic

DeriveNext ==
    \/ /\ derive.pc = "start"
       /\ \E a \in AttrLists : FromAstBegin(a)
    \/ FromAstFilter
    \/ FromAstParseError
    \/ FromAstParse
    \/ FromAstDuplicate
    \/ FromAstSet
    \/ FromAstReturn
    \/ TryMigrateDerive

DeriveSpec == DeriveInit /\ [][DeriveNext]_vars

(***************************************************************************)
(* A program's TryMigrate impls as the macros emit them: the derive given  *)
(* a Container, try_migrate_link! and the base case of                     *)
(* try_migrate_deserializer_chain!.  `type Error` and `fn deserializer`    *)
(* of an emitted impl may refer to the predecessor's.                      *)
(***************************************************************************)

NotEmitted == [via |-> "none"]

\* Error types and deserializer functions a program names.
ErrorNames == {"E1"}

DeserializerNames == {"toml::Deserializer::new", "json"}

\* Values of the optional fields of the Containers the derive is run on.
ContainerErrors == ErrorNames \cup {NoPath}

ContainerDeserializers == {"json", NoPath}

IsEmitted(v) == emitted[v].via # "none"

\* #[derive(TryMigrate)] on struct v, from_ast having returned a Container
\* with prior p, error e and deserializer d.
EmitDerive(v, p, e, d) ==
    /\ ~IsEmitted(v)
    /\ emitted' = [emitted EXCEPT ![v] =
          [via |-> "derive", error |-> e, deserializer |-> d,
           code |-> CreateTryMigrate(
                       [identity |-> v, prior |-> p, error |-> e, deserializer |-> d])]]
    /\ UNCHANGED <<callVars, procs, derive, expansion, magic>>

\* try_migrate_link!(a, b)
TryMigrateLink(a, b) ==
    /\ ~IsEmitted(b)
    /\ emitted' = [emitted EXCEPT ![b] =
          [via |-> "try_migrate_link", error |-> NoPath, deserializer |-> NoPath,
           code |-> [TryFrom |-> a, Error |-> [tag |-> "OfPrior"],
                     deserializer |-> [tag |-> "OfPrior"]]]]
    /\ UNCHANGED <<callVars, procs, derive, expansion, magic>>

\* try_migrate_deserializer_chain!(error: err, deserializer: deser, chain: [a])
TryMigrateDeserializerChain(a, err, deser) ==
    /\ ~IsEmitted(a)
    /\ emitted' = [emitted EXCEPT ![a] =
          [via |-> "try_migrate_deserializer_chain", error |-> err,
           deserializer |-> deser,
           code |-> [TryFrom |-> a, Error |-> [tag |-> "Path", path |-> err],
                     deserializer |-> [tag |-> "Path", path |-> deser]]]]
    /\ UNCHANGED <<callVars, procs, derive, expansion, magic>>

\* `<V as TryMigrate>::TryFrom`
TryFromOf(v) == emitted[v].code.TryFrom

\* `<V as TryMigrate>::Error` as the compiler resolves it; "?" when the
\* predecessor has no impl or the projections go round in a cycle.
RECURSIVE ErrorOf(_, _)
ErrorOf(v, fuel) ==
    IF ~IsEmitted(v) \/ fuel = 0
    THEN "?"
    ELSE IF emitted[v].code.Error.tag = "Path"
    THEN emitted[v].code.Error.path
    ELSE ErrorOf(TryFromOf(v), fuel - 1)

\* The function `V::deserializer(input)` ends up calling; "?" when the
\* predecessor has no impl or the calls go round in a cycle.
RECURSIVE DeserializerOf(_, _)
DeserializerOf(v, fuel) ==
    IF ~IsEmitted(v) \/ fuel = 0
    THEN "?"
    ELSE IF emitted[v].code.deserializer.tag = "Path"
    THEN emitted[v].code.deserializer.path
    ELSE DeserializerOf(TryFromOf(v), fuel - 1)

\* No macro has run yet.
EmitInit ==
    /\ impls = [v \in Versions |-> NoImpl]
    /\ pc = "define"
    /\ fn = "-"
    /\ target = 0
    /\ input = NoInput
    /\ stack = <<>>
    /\ ret = Pending
    /\ decodeLog = <<>>
    /\ convLog = <<>>
    /\ procs = NoProcs
    /\ derive = NoDerive
    /\ emitted = [v \in Versions |-> NotEmitted]
    /\ expansion = NoExpansion
    /\ magic = NoMagic

EmitNext ==
    \/ \E v, p \in Versions :
          \E e \in ContainerErrors :
             \E d \in ContainerDeserializers : EmitDerive(v, p, e, d)
    \/ \E a, b \in Versions : TryMigrateLink(a, b)
    \/ \E a \in Versions :
          \E err \in ErrorNames :
             \E deser \in DeserializerNames : TryMigrateDeserializerChain(a, err, deser)

EmitSpec == EmitInit /\ [][EmitNext]_vars

(***************************************************************************)
(* The declarative macros.  An invocation is a macro name and the tokens   *)
(* between its parentheses; the compiler takes the first arm whose pattern *)
(* matches them and puts the arm's transcription in the invocation's       *)
(* place, items and further invocations alike, until only items are left.  *)
(* A path is one token here: the fragment parser takes it whole.           *)
(***************************************************************************)

\* Longest chain a macro is invoked with.
MaxChain == 3

StructNames == <<"V1", "V2", "V3", "V4">>

Structs == {StructNames[k] : k \in 1..MaxChain}

Punct == {":", ",", "[", "]"}

\* `$x:ident` takes a single identifier, `$x:path` a path of any length.
IsIdent(tok) == tok \notin Punct /\ tok # "toml::Deserializer::new"

IsPath(tok) == tok \notin Punct

\* The elements of a pattern: a token to be met as written, `$x:ident`,
\* `$x:path`, `$($rest:ident),+` and `$(,)?`.
Lit(tok) == [k |-> "lit", x |-> tok]

Ident(x) == [k |-> "ident", x |-> x]

Path(x) == [k |-> "path", x |-> x]

Rest == [k |-> "rest", x |-> "rest"]

OptComma == [k |-> "optcomma", x |-> ","]

Comma == <<Lit(",")>>

\* `error: $err:ident`
KeyError == <<Lit("error"), Lit(":"), Ident("err")>>

\* `deserializer: $deser:path`
KeyDeserializer == <<Lit("deserializer"), Lit(":"), Path("deser")>>

\* `chain: [$a:ident]`
KeyChainOne == <<Lit("chain"), Lit(":"), Lit("["), Ident("a"), Lit("]")>>

\* `chain: [$a:ident, $($rest:ident),+]`
KeyChainRest ==
    <<Lit("chain"), Lit(":"), Lit("["), Ident("a"), Lit(","), Rest, Lit("]")>>

\* The arms of each macro in the order they are written, each with the line
\* its pattern is on.
Arm(line, pat) == [line |-> line, pat |-> pat]

MigrateLinkArms ==
    <<Arm(9, <<Ident("a"), Lit(","), Ident("b")>>),
      Arm(18, <<Ident("a"), Lit(","), Ident("b"), Lit(","), Rest>>)>>

MigrateTomlChainArms ==
    <<Arm(36, <<Ident("a")>>),
      Arm(42, <<Ident("a"), Lit(","), Rest>>)>>

TryMigrateLinkArms ==
    <<Arm(58, <<Ident("a"), Lit(","), Ident("b")>>),
      Arm(68, <<Ident("a"), Lit(","), Ident("b"), Lit(","), Rest>>)>>

TryMigrateTomlChainArms ==
    <<Arm(84, KeyError \o Comma \o KeyChainOne \o <<OptComma>>),
      Arm(88, KeyChainOne \o Comma \o KeyError \o <<OptComma>>),
      Arm(92, KeyError \o Comma \o KeyChainRest \o <<OptComma>>),
      Arm(100, KeyChainRest \o Comma \o KeyError \o <<OptComma>>)>>

MigrateDeserializerChainArms ==
    <<Arm(112, KeyDeserializer \o Comma \o KeyChainOne \o <<OptComma>>),
      Arm(122, KeyDeserializer \o Comma \o KeyChainRest \o <<OptComma>>),
      Arm(131, KeyChainOne \o Comma \o KeyDeserializer \o <<OptComma>>),
      Arm(135, KeyChainRest \o Comma \o KeyDeserializer \o <<OptComma>>)>>

TryMigrateDeserializerChainArms ==
    <<Arm(147, KeyError \o Comma \o KeyDeserializer \o Comma \o KeyChainOne
                  \o <<OptComma>>),
      Arm(163, KeyError \o Comma \o KeyDeserializer \o Comma \o KeyChainRest
                  \o <<OptComma>>),
      Arm(172, KeyError \o Comma \o KeyChainOne \o Comma \o KeyDeserializer
                  \o <<OptComma>>),
      Arm(175, KeyChainOne \o Comma \o KeyDeserializer \o Comma \o KeyError
                  \o <<OptComma>>),
      Arm(178, KeyChainOne \o Comma \o KeyError \o Comma \o KeyDeserializer
                  \o <<OptComma>>),
      Arm(181, KeyDeserializer \o Comma \o KeyChainOne \o Comma \o KeyError
                  \o <<OptComma>>),
      Arm(184, KeyDeserializer \o Comma \o KeyError \o Comma \o KeyChainOne
                  \o Comma \o <<OptComma>>),
      Arm(188, KeyError \o Comma \o KeyChainRest \o Comma \o KeyDeserializer
                  \o <<OptComma>>),
      Arm(191, KeyChainRest \o Comma \o KeyDeserializer \o Comma \o KeyError
                  \o <<OptComma>>),
      Arm(194, KeyChainRest \o Comma \o KeyError \o Comma \o KeyDeserializer
                  \o <<OptComma>>),
      Arm(197, KeyDeserializer \o Comma \o KeyChainRest \o Comma \o KeyError
                  \o <<OptComma>>),
      Arm(200, KeyDeserializer \o Comma \o KeyError \o Comma \o KeyChainRest
                  \o <<OptComma>>)>>

Arms(macro) ==
    CASE macro = "migrate_link" -> MigrateLinkArms
      [] macro = "migrate_toml_chain" -> MigrateTomlChainArms
      [] macro = "try_migrate_link" -> TryMigrateLinkArms
      [] macro = "try_migrate_toml_chain" -> TryMigrateTomlChainArms
      [] macro = "migrate_deserializer_chain" -> MigrateDeserializerChainArms
      [] macro = "try_migrate_deserializer_chain" -> TryMigrateDeserializerChainArms

\* Number of tokens `$($rest:ident),+` takes from the front of toks, 0 when
\* it does not match.  In every arm the repetition is followed by `]` or by
\* the end of the pattern, so a comma after a name is a separator and a name
\* has to follow it.
RECURSIVE RestLen(_)
RestLen(toks) ==
    IF toks = <<>> \/ ~IsIdent(Head(toks))
    THEN 0
    ELSE IF Len(toks) >= 2 /\ toks[2] = ","
    THEN LET n == RestLen(SubSeq(toks, 3, Len(toks)))
         IN  IF n = 0 THEN 0 ELSE n + 2
    ELSE 1

\* The names among the first n tokens of toks, n as RestLen gives it.
RestNames(toks, n) == [j \in 1..((n + 1) \div 2) |-> toks[2 * j - 1]]

NoMatch == [ok |-> FALSE]

NoBindings ==
    [ok |-> TRUE, a |-> "", b |-> "", err |-> "", deser |-> "", rest |-> <<>>]

\* The bindings of pattern pat on tokens toks, or NoMatch.
RECURSIVE Match(_, _, _)
Match(pat, toks, bound) ==
    IF pat = <<>>
    THEN IF toks = <<>> THEN bound ELSE NoMatch
    ELSE LET p == Head(pat)
         IN  CASE p.k = "optcomma" ->
                    IF toks # <<>> /\ Head(toks) = ","
                    THEN Match(Tail(pat), Tail(toks), bound)
                    ELSE Match(Tail(pat), toks, bound)
               [] p.k = "rest" ->
                    LET n == RestLen(toks)
                    IN  IF n = 0
                        THEN NoMatch
                        ELSE Match(Tail(pat), SubSeq(toks, n + 1, Len(toks)),
                                   [bound EXCEPT !.rest = RestNames(toks, n)])
               [] p.k = "lit" ->
                    IF toks # <<>> /\ Head(toks) = p.x
                    THEN Match(Tail(pat), Tail(toks), bound)
                    ELSE NoMatch
               [] p.k = "ident" ->
                    IF toks # <<>> /\ IsIdent(Head(toks))
                    THEN Match(Tail(pat), Tail(toks), [bound EXCEPT ![p.x] = Head(toks)])
                    ELSE NoMatch
               [] p.k = "path" ->
                    IF toks # <<>> /\ IsPath(Head(toks))
                    THEN Match(Tail(pat), Tail(toks), [bound EXCEPT ![p.x] = Head(toks)])
                    ELSE NoMatch

\* The arms of the invocation's macro that match its tokens.
Matching(call) ==
    {j \in 1..Len(Arms(call.macro)) :
        Match(Arms(call.macro)[j].pat, call.toks, NoBindings).ok}

\* `a, b, c`: names with commas between them.
RECURSIVE CommaList(_)
CommaList(names) ==
    IF Len(names) <= 1
    THEN names
    ELSE <<Head(names), ",">> \o CommaList(Tail(names))

\* An item of the expansion: `impl <trait> for <struct>` with what it sets.
Item(trait, struct, prior, error, deserializer) ==
    [out |-> "item", trait |-> trait, struct |-> struct, prior |-> prior,
     error |-> error, deserializer |-> deserializer]

\* An invocation in a transcription.
Invocation(macro, toks) == [out |-> "call", macro |-> macro, toks |-> toks]

\* `error: $err, deserializer: $deser, chain: [..]`
Canonical(err, deser, names) ==
    <<"error", ":", err, ",", "deserializer", ":", deser, ",", "chain", ":", "[">>
        \o CommaList(names) \o <<"]">>

\* Bug: the rest case of a link macro goes on from $a, not from $b.
LinkRestFromFirst(bound) == CommaList(<<bound.a>> \o bound.rest)

\* `$b, $($rest),*`: what the rest case of a link macro goes on with.
LinkRest(bound) == CommaList(<<bound.b>> \o bound.rest)

\* What the arm on the given line is transcribed to under the bindings.
Transcribe(line, bound) ==
    CASE line = 9 ->
            <<Item("Migrate", bound.b, bound.a, NoPath, "OfPrior")>>
      [] line = 18 ->
            <<Invocation("migrate_link", <<bound.a, ",", bound.b>>),
              Invocation("migrate_link", LinkRest(bound))>>
      [] line = 36 ->
            <<Invocation("migrate_deserializer_chain",
                  <<"deserializer", ":", "toml::Deserializer::new", ",",
                    "chain", ":", "[", bound.a, "]">>)>>
      [] line = 42 ->
            <<Invocation("migrate_deserializer_chain",
                  <<"deserializer", ":", "toml::Deserializer::new", ",",
                    "chain", ":", "[">> \o CommaList(<<bound.a>> \o bound.rest)
                      \o <<"]">>)>>
      [] line = 58 ->
            <<Item("TryMigrate", bound.b, bound.a, "OfPrior", "OfPrior")>>
      [] line = 68 ->
            <<Invocation("try_migrate_link", <<bound.a, ",", bound.b>>),
              Invocation("try_migrate_link", LinkRest(bound))>>
      [] line = 84 ->
            <<Invocation("try_migrate_deserializer_chain",
                  Canonical(bound.err, "toml::Deserializer::new", <<bound.a>>))>>
      [] line = 88 ->
            <<Invocation("try_migrate_toml_chain",
                  <<"error", ":", bound.err, ",", "chain", ":", "[", bound.a, "]">>)>>
      [] line = 92 ->
            <<Invocation("try_migrate_toml_chain",
                  <<"error", ":", bound.err, ",", "chain", ":", "[", bound.a, "]">>),
              Invocation("try_migrate_link", CommaList(<<bound.a>> \o bound.rest))>>
      [] line = 100 ->
            <<Invocation("try_migrate_toml_chain",
                  <<"error", ":", bound.err, ",", "chain", ":", "[">>
                      \o CommaList(<<bound.a>> \o bound.rest) \o <<"]">>)>>
      [] line = 112 ->
            <<Item("Migrate", bound.a, bound.a, NoPath, bound.deser)>>
      [] line = 122 ->
            <<Invocation("migrate_deserializer_chain",
                  <<"deserializer", ":", bound.deser, ",",
                    "chain", ":", "[", bound.a, "]">>),
              Invocation("migrate_link", CommaList(<<bound.a>> \o bound.rest))>>
      [] line = 131 ->
            <<Invocation("migrate_deserializer_chain",
                  <<"deserializer", ":", bound.deser, ",",
                    "chain", ":", "[", bound.a, "]">>)>>
      [] line = 135 ->
            <<Invocation("migrate_deserializer_chain",
                  <<"deserializer", ":", bound.deser, ",", "chain", ":", "[">>
                      \o CommaList(<<bound.a>> \o bound.rest) \o <<"]">>)>>
      [] line = 147 ->
            <<Item("TryMigrate", bound.a, bound.a, bound.err, bound.deser),
              Item("From<Infallible>", bound.err, NoPath, NoPath, NoPath)>>
      [] line = 163 ->
            <<Invocation("try_migrate_deserializer_chain",
                  Canonical(bound.err, bound.deser, <<bound.a>>)),
              Invocation("try_migrate_link", CommaList(<<bound.a>> \o bound.rest))>>
      [] line \in {172, 175, 178, 181, 184} ->
            <<Invocation("try_migrate_deserializer_chain",
                  Canonical(bound.err, bound.deser, <<bound.a>>))>>
      [] line \in {188, 191, 194, 197, 200} ->
            <<Invocation("try_migrate_deserializer_chain",
                  Canonical(bound.err, bound.deser, <<bound.a>> \o bound.rest))>>

\* The expansion of one invocation: the transcription of the first arm that
\* matches it.
ExpandOnce(call) ==
    LET first == CHOOSE j \in Matching(call) : \A k \in Matching(call) : j <= k
        arm == Arms(call.macro)[first]
    IN  [line |-> arm.line,
         out |-> Transcribe(arm.line, Match(arm.pat, call.toks, NoBindings))]


\* The items and the invocations of a transcription.
ItemsOf(out) == SelectSeq(out, LAMBDA o : o.out = "item")

CallsOf(out) == SelectSeq(out, LAMBDA o : o.out = "call")

\* The whole expansion of the invocations in pending, leftmost first: the
\* items it leaves, or the failure of an invocation no arm matches.
RECURSIVE ExpandAll(_, _)
ExpandAll(pending, items) ==
    IF pending = <<>>
    THEN [ok |-> TRUE, items |-> items]
    ELSE IF Matching(Head(pending)) = {}
    THEN [ok |-> FALSE, items |-> items]
    ELSE LET out == ExpandOnce(Head(pending)).out
         IN  ExpandAll(CallsOf(out) \o Tail(pending), items \o ItemsOf(out))

\* The keyed arguments of each macro, in the order of its base case; the
\* link macros and migrate_toml_chain! take the names alone.
Keys(macro) ==
    CASE macro = "try_migrate_deserializer_chain" -> <<"error", "deserializer", "chain">>
      [] macro = "try_migrate_toml_chain" -> <<"error", "chain">>
      [] macro = "migrate_deserializer_chain" -> <<"deserializer", "chain">>
      [] OTHER -> <<"names">>

Macros ==
    {"migrate_link", "migrate_toml_chain", "try_migrate_link",
     "try_migrate_toml_chain", "migrate_deserializer_chain",
     "try_migrate_deserializer_chain"}

\* The orders the arguments of a macro can be written in.
Orders(macro) ==
    {o \in [1..Len(Keys(macro)) -> {Keys(macro)[j] : j \in 1..Len(Keys(macro))}] :
        \A j, k \in 1..Len(o) : o[j] = o[k] => j = k}

\* The chains a macro is invoked with: the names of different structs.  A
\* name written twice gives one struct two impls of the trait, which the
\* compiler rejects.
NameLists ==
    {l \in UNION {[1..n -> Structs] : n \in 1..MaxChain} :
        \A j, k \in 1..Len(l) : l[j] = l[k] => j = k}

\* One argument as it is written.
KeyArg(key, names, err, deser) ==
    CASE key = "error" -> <<"error", ":", err>>
      [] key = "deserializer" -> <<"deserializer", ":", deser>>
      [] key = "chain" -> <<"chain", ":", "[">> \o CommaList(names) \o <<"]">>
      [] key = "names" -> CommaList(names)

RECURSIVE ArgList(_, _, _, _)
ArgList(order, names, err, deser) ==
    IF order = <<>>
    THEN <<>>
    ELSE KeyArg(Head(order), names, err, deser)
            \o (IF Len(order) > 1 THEN <<",">> ELSE <<>>)
            \o ArgList(Tail(order), names, err, deser)

\* An invocation as a program writes it, with what it was written from.
Written(macro, order, names, err, deser, trailing) ==
    [macro |-> macro,
     toks |-> ArgList(order, names, err, deser)
                 \o (IF trailing THEN <<",">> ELSE <<>>),
     order |-> order, names |-> names, err |-> err, deser |-> deser,
     trailing |-> trailing]

\* The compiler meets an invocation.  A comma after the last argument is
\* tried on the macros with keyed arguments.
MacroInvoke(call) ==
    /\ expansion.pc = "start"
    /\ Keys(call.macro) = <<"names">> => ~call.trailing
    /\ expansion' = [pc |-> "expanding", call |-> call,
                     pending |-> <<[macro |-> call.macro, toks |-> call.toks]>>,
                     items |-> <<>>, arms |-> <<>>]
    /\ UNCHANGED <<callVars, procs, derive, emitted, magic>>

\* The leftmost invocation is replaced by the transcription of the first arm
\* that matches it.
MacroExpand ==
    /\ expansion.pc = "expanding"
    /\ expansion.pending # <<>>
    /\ Matching(Head(expansion.pending)) # {}
    /\ LET e == ExpandOnce(Head(expansion.pending))
       IN  expansion' = [expansion EXCEPT
              !.pending = [j \in 1..Len(CallsOf(e.out)) |->
                              [macro |-> CallsOf(e.out)[j].macro,
                               toks |-> CallsOf(e.out)[j].toks]]
                             \o Tail(expansion.pending),
              !.items = @ \o ItemsOf(e.out),
              !.arms = Append(@, e.line)]
    /\ UNCHANGED <<callVars, procs, derive, emitted, magic>>

\* No arm matches the leftmost invocation: the compiler reports
\* "no rules expected .." and the program does not compile.
MacroNoRules ==
    /\ expansion.pc = "expanding"
    /\ expansion.pending # <<>>
    /\ Matching(Head(expansion.pending)) = {}
    /\ expansion' = [expansion EXCEPT !.pc = "error"]
    /\ UNCHANGED <<callVars, procs, derive, emitted, magic>>

\* No invocation is left: the items are the expansion.
MacroDone ==
    /\ expansion.pc = "expanding"
    /\ expansion.pending = <<>>
    /\ expansion' = [expansion EXCEPT !.pc = "expanded"]
    /\ UNCHANGED <<callVars, procs, derive, emitted, magic>>

\* The compiler is about to meet an invocation.
MacroInit ==
    /\ impls = [v \in Versions |-> NoImpl]
    /\ pc = "define"
    /\ fn = "-"
    /\ target = 0
    /\ input = NoInput
    /\ stack = <<>>
    /\ ret = Pending
    /\ decodeLog = <<>>
    /\ convLog = <<>>
    /\ procs = NoProcs
    /\ derive = NoDerive
    /\ emitted = NoEmitted
    /\ expansion = [pc |-> "start"]
    /\ magic = NoMagic

MacroNext ==
    \/ /\ expansion.pc = "start"
       /\ \E macro \in Macros : \E order \in Orders(macro) :
             \E names \in NameLists : \E err \in ErrorNames :
                \E deser \in DeserializerNames : \E trailing \in BOOLEAN :
                   MacroInvoke(Written(macro, order, names, err, deser, trailing))
    \/ MacroExpand
    \/ MacroNoRules
    \/ MacroDone

MacroSpec == MacroInit /\ [][MacroNext]_vars


(***************************************************************************)
(* MigrateError, the crate's name for mini_how's MagicError: a struct      *)
(* around ErrorImpl, which is a struct around a boxed `dyn Error`.  A      *)
(* value is a term that records every box and struct around the error, and *)
(* formatting follows the impls of Display and Debug from the outside in.  *)
(***************************************************************************)

\* What an error prints as.
Messages == {"Ohno: An error", "OhNo(An error)", "failed"}

\* The error values a program converts: each with its Display and its Debug
\* output.
ErrorValues == [kind : {"error"}, display : Messages, debug : Messages]

\* The auto traits a boxed `dyn Error` is declared with.
Markers == {"Send + Sync", "Send", "none"}

\* Box::new(x)
BoxNew(x) == [kind |-> "Box", inner |-> x]

\* The coercion of a Box<T> to Box<dyn Error + ..>: the same content behind
\* a trait object.
Unsize(box, marker) == [kind |-> "BoxDyn", inner |-> box.inner, marker |-> marker]

\* impl<E> From<E> for ErrorImpl
ErrorImplFrom(error) ==
    [kind |-> "ErrorImpl", inner |-> Unsize(BoxNew(error), "Send + Sync")]

\* Bug: the error is replaced by one made of its message.
MagicErrorFromMessage(error) ==
    [kind |-> "MagicError",
     inner |-> ErrorImplFrom([kind |-> "error", display |-> error.display,
                              debug |-> error.display])]

\* impl<E> From<E> for MagicError: `inner: Box::new(error).into()`
MagicErrorFrom(error) ==
    [kind |-> "MagicError", inner |-> ErrorImplFrom(BoxNew(error))]

\* impl From<MagicError> for Box<dyn Error + ..>: `value.inner.inner`
BoxedFrom(value, marker) ==
    [kind |-> "BoxDyn", inner |-> value.inner.inner.inner, marker |-> marker]

\* Display::fmt: MagicError and ErrorImpl hand over to their field, a box to
\* its content.
RECURSIVE DisplayFmt(_)
DisplayFmt(x) ==
    IF x.kind = "error" THEN x.display ELSE DisplayFmt(x.inner)

\* Debug::fmt, likewise.
RECURSIVE DebugFmt(_)
DebugFmt(x) ==
    IF x.kind = "error" THEN x.debug ELSE DebugFmt(x.inner)

\* Nothing was printed.
NoOutput == "-"

\* A program has an error value in hand.
MagicRaise(e) ==
    /\ magic.pc = "start"
    /\ magic' = [pc |-> "raised", error |-> e, held |-> NoOutput,
                 display |-> NoOutput, debug |-> NoOutput]
    /\ UNCHANGED <<callVars, procs, derive, emitted, expansion>>

\* `let error: MagicError = e.into();`
MagicInto ==
    /\ magic.pc = "raised"
    /\ magic' = [magic EXCEPT !.pc = "wrapped", !.held = MagicErrorFrom(magic.error)]
    /\ UNCHANGED <<callVars, procs, derive, emitted, expansion>>

\* `format!("{}", held)`
MagicDisplay ==
    /\ magic.pc \in {"wrapped", "boxed"}
    /\ magic.display = NoOutput
    /\ magic' = [magic EXCEPT !.display = DisplayFmt(magic.held)]
    /\ UNCHANGED <<callVars, procs, derive, emitted, expansion>>

\* `format!("{:?}", held)`
MagicDebug ==
    /\ magic.pc \in {"wrapped", "boxed"}
    /\ magic.debug = NoOutput
    /\ magic' = [magic EXCEPT !.debug = DebugFmt(magic.held)]
    /\ UNCHANGED <<callVars, procs, derive, emitted, expansion>>

\* `let boxed: Box<dyn Error + ..> = error.into();`: what was printed of the
\* MagicError is of no use for the box.
MagicIntoBoxed(marker) ==
    /\ magic.pc = "wrapped"
    /\ magic' = [magic EXCEPT !.pc = "boxed", !.held = BoxedFrom(magic.held, marker),
                              !.display = NoOutput, !.debug = NoOutput]
    /\ UNCHANGED <<callVars, procs, derive, emitted, expansion>>

\* A program is about to have an error value.
MagicInit ==
    /\ impls = [v \in Versions |-> NoImpl]
    /\ pc = "define"
    /\ fn = "-"
    /\ target = 0
    /\ input = NoInput
    /\ stack = <<>>
    /\ ret = Pending
    /\ decodeLog = <<>>
    /\ convLog = <<>>
    /\ procs = NoProcs
    /\ derive = NoDerive
    /\ emitted = NoEmitted
    /\ expansion = NoExpansion
    /\ magic = [pc |-> "start"]

MagicNext ==
    \/ \E e \in ErrorValues : MagicRaise(e)
    \/ MagicInto
    \/ MagicDisplay
    \/ MagicDebug
    \/ \E marker \in Markers : MagicIntoBoxed(marker)

MagicSpec == MagicInit /\ [][MagicNext]_vars

Up(t, d) == IF d = 0 THEN t ELSE Prior(Up(t, d - 1))

\* t's chain reaches a self-referential root.
Rooted(t) == \E d \in 0..(NumVersions - 1) : IsRoot(Up(t, d))

RootDist(t) ==
    CHOOSE d \in 0..(NumVersions - 1) :
        /\ IsRoot(Up(t, d))
        /\ \A e \in 0..(d - 1) : ~IsRoot(Up(t, e))

\* Number of versions of t's chain.
ChainLen(t) == RootDist(t) + 1

Accepted(v) == Deserialize(v, input).tag = "Ok"

\* Distances from the target at which a version of its chain accepts the input.
AcceptingDists ==
    {d \in 0..(NumVersions - 1) :
        /\ Accepted(Up(target, d))
        /\ \A e \in 0..(d - 1) : ~IsRoot(Up(target, e))}

SomeAccepts == AcceptingDists # {}

Min(S) == CHOOSE x \in S : \A y \in S : x <= y

Max(S) == CHOOSE x \in S : \A y \in S : x >= y

\* The accepting version nearest to the target.
NearestDist == Min(AcceptingDists)

\* The value decoded by the nearest accepting version, pushed through the
\* converters of the links after it up to the one d links before the target.
ConvertedAt(d) ==
    [ver |-> Up(target, d),
     origin |-> Up(target, NearestDist),
     via |-> [j \in 1..(NearestDist - d) |-> Up(target, NearestDist - j)]]

Converted == ConvertedAt(0)

\* The link d links before the target fails on the value it is handed.
LinkFails(d) == TryFromPrior(Up(target, d), ConvertedAt(d + 1), input).tag = "Err"

FailingDists == {d \in 0..(NearestDist - 1) : LinkFails(d)}

\* Structs from distance a down to distance b before the target, in that order.
Span(a, b) == [j \in 1..(a - b + 1) |-> Up(target, a - j + 1)]

Done == pc = "done"

\* C1.  Directness priority: when the target's own decoder accepts the input,
\* from_str_migrations returns Some(the value decoded as the target) and
\* try_from_str_migrations returns Some(Ok(that value)), and no converter is
\* applied, whatever older versions would also have accepted.
C1_DirectnessPriority ==
    (Done /\ Accepted(target)) =>
        /\ convLog = <<>>
        /\ fn = "from_str_migrations" =>
              ret = [tag |-> "Some", val |-> Deserialize(target, input).val]
        /\ fn = "try_from_str_migrations" =>
              ret = [tag |-> "SomeOk", val |-> Deserialize(target, input).val]

\* C1 happens: a finished call whose target accepted an input that an older
\* version of its chain accepts too.
C1_Witness ==
    /\ Done
    /\ Accepted(target)
    /\ \E v \in Lineage(target) \ {target} : Accepted(v)

\* C2.  Nearest match wins, infallible variant: when some version of the
\* chain accepts the input, from_str_migrations returns Some of the value
\* decoded by the accepting version nearest to the target, pushed through
\* exactly the converters of the links after it, in ascending order.
C2_NearestMatchWins ==
    (Done /\ fn = "from_str_migrations" /\ SomeAccepts) =>
        /\ ret = [tag |-> "Some", val |-> Converted]
        /\ convLog = Converted.via

\* C2 happens: the target rejected, a nearer and an older version both
\* accepted, and a converted value came back.
C2_Witness ==
    /\ Done
    /\ fn = "from_str_migrations"
    /\ Rooted(target)
    /\ SomeAccepts
    /\ NearestDist >= 1
    /\ \E d \in AcceptingDists : d > NearestDist
    /\ ret.tag = "Some"

\* C3.  None exactly when nothing decodes: either function returns None if
\* and only if every version from the target back to the root rejects the
\* input.
C3_NoneIffNothingDecodes ==
    Done => (ret.tag = "None" <=> \A v \in Lineage(target) : ~Accepted(v))

\* C3 happens: a chain of several versions, all rejecting, returned None.
C3_Witness ==
    /\ Done
    /\ ret.tag = "None"
    /\ ChainLen(target) >= 2
    /\ fn = "try_from_str_migrations"

\* The case of C4: a finished try_from_str_migrations on B in a chain
\* A -> B, only A accepted, and the converter A -> B fails on A's value.
C4_Case ==
    /\ Done
    /\ fn = "try_from_str_migrations"
    /\ ~IsRoot(target)
    /\ IsRoot(Prior(target))
    /\ ~Accepted(target)
    /\ Accepted(Prior(target))
    /\ TryFromPrior(target, Deserialize(Prior(target), input).val, input).tag = "Err"

\* C4.  Conversion failure is Some(Err): in a fallible chain A -> B, when
\* only A's decoder accepts the input and the converter A -> B fails on the
\* decoded value, try_from_str_migrations on B returns Some(Err(_)), neither
\* None nor Some(Ok(_)).
C4_ConversionFailureIsSomeErr ==
    C4_Case => ret.tag = "SomeErr"

\* C4 happens: such a call finished.
C4_Witness == C4_Case /\ convLog = <<target>>

\* C5.  Fallible success path: when the nearest accepting version is Vk and
\* every converter of the links after it succeeds on the value it is handed,
\* try_from_str_migrations returns Some(Ok(v)), v being those converters
\* applied in ascending order to the value Vk decoded.
C5_FallibleSuccessPath ==
    (Done /\ fn = "try_from_str_migrations" /\ SomeAccepts /\ FailingDists = {}) =>
        /\ ret = [tag |-> "SomeOk", val |-> Converted]
        /\ convLog = Converted.via

\* C5 happens: a value decoded two or more links before a TryMigrate target
\* came back converted.
C5_Witness ==
    /\ Done
    /\ fn = "try_from_str_migrations"
    /\ SomeAccepts
    /\ NearestDist >= 2
    /\ FallibleLinks(target) # {}
    /\ FailingDists = {}
    /\ ret.tag = "SomeOk"

\* The case of C6: a finished try_from_str_migrations on C in a chain
\* A -> B -> C, only A accepted, and the converter A -> B fails on A's value.
C6_Case ==
    /\ Done
    /\ fn = "try_from_str_migrations"
    /\ ~IsRoot(target)
    /\ ~IsRoot(Prior(target))
    /\ IsRoot(Prior(Prior(target)))
    /\ ~Accepted(target)
    /\ ~Accepted(Prior(target))
    /\ Accepted(Prior(Prior(target)))
    /\ TryFromPrior(Prior(target),
                    Deserialize(Prior(Prior(target)), input).val, input).tag = "Err"

\* C6.  Error widening across links: in a chain A -> B -> C, when only A
\* accepts the input and the converter A -> B fails with e,
\* try_from_str_migrations on C returns Some(Err(e')), e' being e widened
\* into B's error type and then into C's.
C6_ErrorWidening ==
    C6_Case =>
        ret = [tag |-> "SomeErr",
               err |-> [link |-> Prior(target),
                        origin |-> Prior(Prior(target)),
                        widened |-> <<Prior(target), target>>]]

\* C6 happens: such a call finished.
C6_Witness == C6_Case /\ convLog = <<Prior(target)>>

\* The first link, going up from the nearest accepting version, to fail.
FirstFailure == Max(FailingDists)

\* C7.  First failure surfaces: once the converter of a link fails, no
\* converter of a later link is applied and no other decoder is tried; the
\* result is Some(Err) of that first failure, widened by every later link.
C7_FirstFailureSurfaces ==
    (Done /\ fn = "try_from_str_migrations" /\ SomeAccepts /\ FailingDists # {}) =>
        /\ ret = [tag |-> "SomeErr",
                  err |-> [link |-> Up(target, FirstFailure),
                           origin |-> Up(target, NearestDist),
                           widened |-> Span(FirstFailure, 0)]]
        /\ convLog = Span(NearestDist - 1, FirstFailure)
        /\ decodeLog = [j \in 1..(NearestDist + 1) |-> Up(target, j - 1)]

\* C7 happens: the first of two failing links failed, with a link left
\* after it.
C7_Witness ==
    /\ Done
    /\ fn = "try_from_str_migrations"
    /\ SomeAccepts
    /\ Cardinality(FailingDists) >= 2
    /\ ret.tag = "SomeErr"

\* C8.  Root-only chain: on a single self-referential root R, either function
\* returns the decoded value (Some, Some(Ok)) when R's decoder accepts and
\* None otherwise; never Some(Err).
C8_RootOnlyChain ==
    (Done /\ IsRoot(target)) =>
        /\ ret.tag # "SomeErr"
        /\ convLog = <<>>
        /\ decodeLog = <<target>>
        /\ ~Accepted(target) => ret = [tag |-> "None"]
        /\ (Accepted(target) /\ fn = "from_str_migrations") =>
              ret = [tag |-> "Some", val |-> Deserialize(target, input).val]
        /\ (Accepted(target) /\ fn = "try_from_str_migrations") =>
              ret = [tag |-> "SomeOk", val |-> Deserialize(target, input).val]

\* C8 happens: try_from_str_migrations on a root returned the decoded value.
C8_Witness ==
    /\ Done
    /\ IsRoot(target)
    /\ fn = "try_from_str_migrations"
    /\ ret.tag = "SomeOk"

Running == pc \in {"decode", "return"}

\* Decode attempts and converter applications of a call on a rooted chain
\* never exceed the chain's length and its number of links.
C9_WithinOneWalk ==
    (pc \in {"decode", "return", "done", "aborted"} /\ Rooted(target)) =>
        /\ Len(decodeLog) <= ChainLen(target)
        /\ Len(convLog) <= ChainLen(target) - 1

\* C9.  Termination: on a chain of n versions that reaches its root, every
\* call of either function returns, after at most n decode attempts and at
\* most n - 1 converter applications.
C9_Termination ==
    /\ [](C9_WithinOneWalk)
    /\ (Running /\ Rooted(target)) ~> Done

\* C9 happens: a call on the longest chain used every decode attempt and
\* every converter application it is allowed.
C9_Witness ==
    /\ Done
    /\ Rooted(target)
    /\ ChainLen(target) = NumVersions
    /\ Len(decodeLog) = ChainLen(target)
    /\ Len(convLog) = ChainLen(target) - 1

\* C10.  Malformed chains are rejected before resolution: no call of either
\* function ever runs on a struct whose predecessors never reach a
\* self-referential root, so none diverges.
C10_NoCallOnMalformedChain ==
    pc \in {"decode", "return", "done", "aborted"} => Rooted(target)

\* The version whose decoded value the result of a finished call stems from.
Seed == IF ret.tag = "SomeErr" THEN ret.err.origin ELSE ret.val.origin

\* The last version whose decoder ran.
LastDecoded == decodeLog[Len(decodeLog)]

\* The oldest version of the chain whose decoder accepts the input.
OldestDist == Max(AcceptingDists)

\* C11 as stated.  Oldest ancestor: the version whose decoded value seeds the
\* forward conversion is the oldest version of the chain whose decoder can
\* deserialize the input.
C11_OldestAncestorSeeds ==
    (Done /\ SomeAccepts) => Seed = Up(target, OldestDist)

\* C11.  Nearest ancestor: for every chain and input some version accepts,
\* the version whose decoded value seeds the forward conversion is the
\* accepting version nearest to the target, the last one whose decoder ran,
\* and no version older than it is decoded; a result without a conversion
\* failure is that value converted version-to-version up to the target.
C11_NearestAncestorSeeds ==
    (Done /\ SomeAccepts) =>
        /\ Seed = Up(target, NearestDist)
        /\ LastDecoded = Seed
        /\ Len(decodeLog) = NearestDist + 1
        /\ ret.tag \in {"Some", "SomeOk"} => ret.val = Converted

\* C11 happens: two versions accept, the nearer one is not the target, and
\* try_from_str_migrations converted the nearer one's value up to the target.
C11_Witness ==
    /\ Done
    /\ fn = "try_from_str_migrations"
    /\ SomeAccepts
    /\ NearestDist >= 1
    /\ OldestDist > NearestDist
    /\ ret.tag = "SomeOk"
    /\ convLog # <<>>

\* Every link of t's chain is infallible: every struct of it implements
\* Migrate and has TryMigrate from the blanket impl.
InfallibleChain(t) == \A v \in Lineage(t) : impls[v].kind = "Migrate"

\* `.map(Ok)` on what from_str_migrations returns.
MapOk(r) == IF r.tag = "Some" THEN [tag |-> "SomeOk", val |-> r.val] ELSE r

\* C13.  Infallible chains compose under the fallible algorithm: on a chain
\* whose every struct implements Migrate, a finished try_from_str_migrations
\* never returns Some(Err(_)) and returns what from_str_migrations returns on
\* the same target and input, mapped through Ok; a finished
\* from_str_migrations returns that same value unwrapped.
C13_InfallibleChainsCompose ==
    (Done /\ InfallibleChain(target)) =>
        /\ ret.tag # "SomeErr"
        /\ fn = "try_from_str_migrations" =>
              ret = MapOk(FromStrMigrations(target, input))
        /\ fn = "from_str_migrations" =>
              /\ ret = FromStrMigrations(target, input)
              /\ MapOk(ret) = TryFromStrMigrations(target, input)

\* C13 happens: try_from_str_migrations on an infallible chain of three
\* structs returned the root's value, converted twice.
C13_Witness ==
    /\ Done
    /\ fn = "try_from_str_migrations"
    /\ InfallibleChain(target)
    /\ Rooted(target)
    /\ ChainLen(target) >= 3
    /\ ret.tag = "SomeOk"
    /\ Len(ret.val.via) >= 2

\* The versions whose decoder ran and rejected the input.
Rejecting == {decodeLog[j] : j \in {k \in 1..Len(decodeLog) : ~Accepted(decodeLog[k])}}

\* C19.  Decode failures are never surfaced as errors: whenever
\* try_from_str_migrations returns Some(Err(e)), a version of the chain
\* accepted the input and e comes from the converter of a link that was
\* applied to the value decoded by that version; the decoders that rejected
\* are those of the versions after it, and when every decoder rejects the
\* result is None.
C19_DecodeFailuresNotSurfaced ==
    (Done /\ fn = "try_from_str_migrations") =>
        /\ ret.tag = "SomeErr" =>
              /\ SomeAccepts
              /\ Accepted(ret.err.origin)
              /\ ret.err.origin = LastDecoded
              /\ convLog # <<>>
              /\ ret.err.link = convLog[Len(convLog)]
              /\ TryFromPrior(ret.err.link, ConvertedAt(FirstFailure + 1), input).tag = "Err"
              /\ Rejecting = {Up(target, d) : d \in 0..(NearestDist - 1)}
        /\ ~SomeAccepts => ret = [tag |-> "None"]

\* C19 happens: the target's and its predecessor's decoders rejected, an
\* older version accepted, and a converter failed on the way back.
C19_Witness ==
    /\ Done
    /\ fn = "try_from_str_migrations"
    /\ ret.tag = "SomeErr"
    /\ Cardinality(Rejecting) >= 2

\* The decode attempts so far went from the target down the predecessor
\* links, one version after the other.
DecodesDescend == \A k \in 1..Len(decodeLog) : decodeLog[k] = Up(target, k - 1)

\* No version's decoder ran twice.
DecodesOnce ==
    \A j, k \in 1..Len(decodeLog) : decodeLog[j] = decodeLog[k] => j = k

\* The converters applied so far are those of the links after the last
\* version decoded, one link after the other towards the target.
ConvertsAscend ==
    \A j \in 1..Len(convLog) : convLog[j] = Up(target, Len(decodeLog) - 1 - j)

LastConverted == convLog[Len(convLog)]

ThreadDone(t) == procs[t].pc = "done"

\* C12.  Concurrent resolutions do not interfere: with several threads
\* running calls on the same chain, with the same or different targets and
\* inputs and their decode and convert steps interleaved in any order, each
\* call returns what the function returns on its target and input when it
\* runs alone.
C12_NoInterference ==
    \A t \in Threads :
        ThreadDone(t) =>
            procs[t].ret = Resolve(procs[t].fn, procs[t].target, procs[t].input)

\* C12 happens: one thread has finished with a conversion failure while
\* another, called on the same struct with another input, is between its
\* predecessor's return and its own conversion, which will succeed.
C12_Witness ==
    \E t, u \in Threads :
        /\ t # u
        /\ ThreadDone(t)
        /\ procs[t].ret.tag = "SomeErr"
        /\ procs[u].pc = "return"
        /\ Len(procs[u].stack) = 2
        /\ procs[u].ret.tag = "SomeOk"
        /\ procs[u].target = procs[t].target
        /\ procs[u].input # procs[t].input
        /\ procs[u].input.bad = {}

\* from_ast has returned.
Returned == derive.pc \in {"returned", "expanded"}

\* The declaration pair k of attribute list a belongs to: the index of its
\* first pair, and the macro it is for.
RECURSIVE DeclStart(_, _)
DeclStart(a, k) == IF a[k].open # "same" THEN k ELSE DeclStart(a, k - 1)

DeclOpen(a, k) == a[DeclStart(a, k)].open

\* The pairs of a's #[try_migrate(..)] declarations.
Ours(a) == {k \in 1..Len(a) : DeclOpen(a, k) = NAMESPACE}

\* The pairs of them that supply a key.
Supplies(a, key) == {k \in Ours(a) : a[k].key = key}

\* The pairs of them whose key is not a known one.
Unknowns(a) == {k \in Ours(a) : a[k].key \notin {"prior", "error"}}

\* The pairs of them that supply a known key for the second or a later time.
Repeats(a) ==
    {k \in Ours(a) :
        /\ a[k].key \in {"prior", "error"}
        /\ \E j \in Supplies(a, a[k].key) : j < k}

\* A repeated key is met before the declaration of the first unknown key is
\* parsed, if there is one.
RepeatMetFirst(a) ==
    /\ Repeats(a) # {}
    /\ Unknowns(a) # {} => Min(Repeats(a)) < DeclStart(a, Min(Unknowns(a)))

\* An unknown key is met before a repeated one.
UnknownMetFirst(a) ==
    /\ Unknowns(a) # {}
    /\ Repeats(a) # {} => DeclStart(a, Min(Unknowns(a))) <= Min(Repeats(a))

IsMissingPrior(r) == r.tag = "Err" /\ r.err.msg = "Missing required attribute"

IsDuplicate(r) == r.tag = "Err" /\ r.err.msg = "Duplicate definition for"

\* The value of a key in the Container from_ast returned.
Recorded(key) ==
    IF key = "prior"
    THEN derive.result.val.prior
    ELSE IF derive.result.val.tag = "Full" THEN derive.result.val.error ELSE NoPath

\* The value a key supplied once is recorded with: its own, the struct's
\* name for `prior = None`.
Supplied(a, key) ==
    LET val == a[CHOOSE k \in Supplies(a, key) : TRUE].val
    IN  IF key = "prior" /\ val = "None" THEN Identity ELSE val

IsUnknown(r) == r.tag = "Err" /\ r.err.msg = "Unknown try_migrate attribute"

RECURSIVE EmitLineage(_, _)
EmitLineage(v, fuel) ==
    IF ~IsEmitted(v) \/ fuel = 0
    THEN {0}
    ELSE IF TryFromOf(v) = v
    THEN {v}
    ELSE {v} \cup EmitLineage(TryFromOf(v), fuel - 1)

\* v's chain reaches a root and its impls compile: `type Error` and the
\* return type of `fn deserializer` resolve.
Chained(v) ==
    /\ 0 \notin EmitLineage(v, NumVersions)
    /\ ErrorOf(v, NumVersions) # "?"
    /\ DeserializerOf(v, NumVersions) # "?"

EmitRoot(v) == CHOOSE r \in EmitLineage(v, NumVersions) : TryFromOf(r) = r

\* The struct's registration names an error type, a deserializer function.
DeclaresError(v) == emitted[v].error # NoPath

DeclaresDeserializer(v) == emitted[v].deserializer # NoPath

\* The error type the root's registration gives the chain.
RootError(r) ==
    IF DeclaresError(r) THEN emitted[r].error ELSE "magic_migrate::MigrateError"

\* C17.  The error type is inherited along the chain: in a chain registered
\* through the derive or try_migrate_link, a version that declares no error
\* type has its predecessor's, a root that declares none has MigrateError,
\* one that declares a type has that type; so when no version but the root
\* declares one, every version of the chain, the target included, has the
\* one error type of the root.
C17_ErrorTypeInherited ==
    \A v \in Versions :
        (IsEmitted(v) /\ Chained(v)) =>
            /\ DeclaresError(v) => ErrorOf(v, NumVersions) = emitted[v].error
            /\ (~DeclaresError(v) /\ TryFromOf(v) # v) =>
                  ErrorOf(v, NumVersions) = ErrorOf(TryFromOf(v), NumVersions)
            /\ (~DeclaresError(v) /\ TryFromOf(v) = v) =>
                  ErrorOf(v, NumVersions) = "magic_migrate::MigrateError"
            /\ (\A w \in EmitLineage(v, NumVersions) \ {EmitRoot(v)} : ~DeclaresError(w)) =>
                  \A w \in EmitLineage(v, NumVersions) :
                      ErrorOf(w, NumVersions) = RootError(EmitRoot(v))

\* C17 happens: a chain of three structs, the root derived with error E1,
\* one struct linked by try_migrate_link and one derived without error.
C17_Witness ==
    \E v \in Versions :
        /\ IsEmitted(v)
        /\ Chained(v)
        /\ Cardinality(EmitLineage(v, NumVersions)) = 3
        /\ emitted[EmitRoot(v)].via = "derive"
        /\ emitted[EmitRoot(v)].error = "E1"
        /\ \E w \in EmitLineage(v, NumVersions) : emitted[w].via = "try_migrate_link"
        /\ \E w \in EmitLineage(v, NumVersions) \ {EmitRoot(v)} :
              emitted[w].via = "derive" /\ ~DeclaresError(w)
        /\ ErrorOf(v, NumVersions) = "E1"

\* The deserializer function the root's registration gives the chain.
RootDeserializer(r) ==
    IF DeclaresDeserializer(r) THEN emitted[r].deserializer ELSE "toml::Deserializer::new"

\* The deserializer function declared by v or, failing that, by the nearest
\* version before it; toml when none up to the root declares one.
RECURSIVE NearestDeclared(_, _)
NearestDeclared(v, fuel) ==
    IF DeclaresDeserializer(v)
    THEN emitted[v].deserializer
    ELSE IF TryFromOf(v) = v \/ fuel = 0
    THEN "toml::Deserializer::new"
    ELSE NearestDeclared(TryFromOf(v), fuel - 1)

AcceptEndsDecoding ==
    \A k \in 1..Len(decodeLog) : Accepted(decodeLog[k]) => k = Len(decodeLog)

\* C21.  No backtracking past a successful decode: once the decoder of some
\* version has accepted the input, no decoder runs again in that call, that
\* of an older version included, whether the converters that follow succeed
\* or one of them fails.
C21_NoBacktracking ==
    /\ [](AcceptEndsDecoding)
    /\ [][(decodeLog # <<>> /\ Accepted(LastDecoded))
             => (decodeLog' = decodeLog \/ pc = "done")]_vars

\* C21 happens: a version accepted, a converter after it failed, and an
\* older version that accepts the input too was never decoded.
C21_Witness ==
    /\ Done
    /\ ret.tag = "SomeErr"
    /\ Accepted(LastDecoded)
    /\ \E v \in Lineage(LastDecoded) \ {LastDecoded} :
          /\ Accepted(v)
          /\ \A k \in 1..Len(decodeLog) : decodeLog[k] # v

\* C22.  Resolution leaves the chain unchanged: once the program is compiled
\* no step changes a struct's impl (its predecessor and its trait, which
\* fixes its converter and its error type), so the chain after any number of
\* calls is the chain as registered; and no step of a running call (decode
\* attempt, recursion, conversion, widening, return) changes the input.
C22_ChainUnchanged ==
    [][/\ pc # "define" => impls' = impls
       /\ pc \in {"decode", "return"} => input' = input]_vars

\* C22 happens: a call went through three decode attempts, a conversion that
\* failed and two widenings, and returned.
C22_Witness ==
    /\ Done
    /\ fn = "try_from_str_migrations"
    /\ Len(decodeLog) = 3
    /\ convLog # <<>>
    /\ ret.tag = "SomeErr"
    /\ Len(ret.err.widened) = 2

\* A frame of the call has returned None.
FreshNone ==
    /\ pc \in {"return", "done"}
    /\ ret.tag = "None"

\* Every version that rejected the input and is not its own predecessor had
\* its predecessor called next.
RejectedRecurses ==
    \A k \in 1..Len(decodeLog) :
        (~Accepted(decodeLog[k]) /\ Prior(decodeLog[k]) # decodeLog[k]) =>
            \/ k < Len(decodeLog) /\ decodeLog[k + 1] = Prior(decodeLog[k])
            \/ k = Len(decodeLog) /\ pc = "decode" /\ Self = Prior(decodeLog[k])
            \/ k = Len(decodeLog) /\ pc = "aborted"

\* C23.  Root test is by identity: a call returns None after a failed decode
\* only at a version that is its own predecessor; a version with another
\* predecessor is never taken for the root, whether or not that predecessor
\* treats the input as it does, and its predecessor is called.
C23_RootTestByIdentity ==
    (pc \in {"decode", "return", "done", "aborted"}) =>
        /\ FreshNone =>
              /\ Prior(LastDecoded) = LastDecoded
              /\ ~Accepted(LastDecoded)
        /\ RejectedRecurses

\* C23 happens: from_str_migrations returned None from the root after two
\* versions, each rejecting the input exactly as its predecessor does, had
\* called their predecessors.
C23_Witness ==
    /\ Done
    /\ fn = "from_str_migrations"
    /\ ret.tag = "None"
    /\ Len(decodeLog) >= 3
    /\ \A k \in 1..(Len(decodeLog) - 1) :
          /\ Prior(decodeLog[k]) # decodeLog[k]
          /\ Deserialize(Prior(decodeLog[k]), input) = Deserialize(decodeLog[k], input)

\* The links a returned value or error went through.
LinksOf(r) ==
    CASE r.tag \in {"Some", "SomeOk"} -> {r.val.via[k] : k \in 1..Len(r.val.via)}
      [] r.tag = "SomeErr" -> {r.err.link}
      [] OTHER -> {}

\* C24.  The root's self-conversion is never performed: in no call, on any
\* chain and any input, is the converter of a struct that is its own
\* predecessor applied; no value and no error a frame returns went through
\* it.
C24_RootNeverConverts ==
    /\ \A k \in 1..Len(convLog) : ~IsRoot(convLog[k])
    /\ \A v \in LinksOf(ret) : ~IsRoot(v)

\* C24 happens: the root decoded the input and its value was converted up
\* to the target, two links away.
C24_Witness ==
    /\ Done
    /\ IsRoot(LastDecoded)
    /\ Accepted(LastDecoded)
    /\ Len(convLog) >= 2
    /\ ret.tag \in {"Some", "SomeOk"}

\* The error type of struct v's link is Infallible: v converts by From, or
\* by the standard library's reflexive TryFrom, v being a root.
InfallibleLink(v) == impls[v].kind = "Migrate" \/ IsRoot(v)

\* Error e went through a From<Infallible> conversion: the link it comes from
\* has the error type Infallible, or it was widened out of the
\* TryMigrate::Error of a Migrate struct, which the blanket impl sets to
\* Infallible.
WidenedFromInfallible(e) ==
    \/ InfallibleLink(e.link)
    \/ \E k \in 2..Len(e.widened) : impls[e.widened[k - 1]].kind = "Migrate"

\* C25.  The no-error-possible widening is never executed: no error a frame
\* returns, on any chain, all-fallible or mixed with infallible links, and
\* any input, was made by From<Infallible>; every error comes from the
\* converter of a fallible link and was widened only out of the error types
\* of TryMigrate structs.
C25_InfallibleNeverWidened ==
    ret.tag = "SomeErr" =>
        /\ ~WidenedFromInfallible(ret.err)
        /\ ret.err.widened # <<>>
        /\ ret.err.widened[1] = ret.err.link

\* C25 happens: on a chain that has a Migrate struct under TryMigrate ones,
\* a fallible link failed and its error was widened into the error type of
\* the struct after it.
C25_Witness ==
    /\ Done
    /\ ret.tag = "SomeErr"
    /\ Len(ret.err.widened) >= 2
    /\ \E v \in Lineage(target) : impls[v].kind = "Migrate"

\* The path a struct definition writes after `prior =`, and after `error =`
\* if it has one.
RawPrior(a) == a[CHOOSE k \in Supplies(a, "prior") : TRUE].val

RawError(a) ==
    IF Supplies(a, "error") = {}
    THEN NoPath
    ELSE a[CHOOSE k \in Supplies(a, "error") : TRUE].val

\* The Container of the first struct of a chain, given the error it names.
RootContainer(e) ==
    IF e = NoPath
    THEN [tag |-> "ErrorFromPrior", identity |-> Identity, prior |-> Identity]
    ELSE [tag |-> "Full", identity |-> Identity, prior |-> Identity, error |-> e]

\* C26.  Root declaration is normalized: `prior = None` and `prior = ` the
\* struct's own name give the same Container, whose prior is the struct
\* itself, and the same impl, that of the first struct of a chain: TryFrom
\* is the struct, Error is MigrateError unless the struct names one, and the
\* deserializer is toml's.  A prior naming another struct is kept as written
\* and the impl takes from it what the struct does not name.
C26_RootNormalized ==
    (derive.pc = "expanded" /\ derive.output.tag = "impl") =>
        LET p == RawPrior(derive.input)
            e == RawError(derive.input)
            c == derive.output.code
        IN  /\ p \in {"None", Identity} =>
                 /\ derive.result.val = RootContainer(e)
                 /\ c.TryFrom = Identity
                 /\ c.Error =
                       [tag |-> "Path",
                        path |-> IF e = NoPath THEN "magic_migrate::MigrateError" ELSE e]
                 /\ c.deserializer = [tag |-> "Path", path |-> "toml::Deserializer::new"]
            /\ p \notin {"None", Identity} =>
                 /\ derive.result.val.prior = p
                 /\ c.TryFrom = p
                 /\ c.Error = IF e = NoPath
                              THEN [tag |-> "OfPrior"]
                              ELSE [tag |-> "Path", path |-> e]
                 /\ c.deserializer = [tag |-> "OfPrior"]

\* C26 happens: the derive expanded a struct that writes `prior = None` and
\* no error.
C26_Witness ==
    /\ derive.pc = "expanded"
    /\ derive.output.tag = "impl"
    /\ RawPrior(derive.input) = "None"
    /\ RawError(derive.input) = NoPath
    /\ derive.result.val.prior = Identity

\* The macro emits impls of TryMigrate, not of Migrate.
IsTry(macro) ==
    macro \in {"try_migrate_link", "try_migrate_toml_chain",
               "try_migrate_deserializer_chain"}

IsLinkMacro(macro) == macro \in {"migrate_link", "try_migrate_link"}

ChainTrait(macro) == IF IsTry(macro) THEN "TryMigrate" ELSE "Migrate"

\* The impls of Migrate and TryMigrate among the items of an expansion.
ChainImpls(items) ==
    SelectSeq(items, LAMBDA i : i.trait \in {"Migrate", "TryMigrate"})

\* The other items.
OtherImpls(items) ==
    SelectSeq(items, LAMBDA i : i.trait \notin {"Migrate", "TryMigrate"})

\* The impl of the first struct of the invocation's chain, its own
\* predecessor, with the error and the deserializer the invocation names.
RootImpl(call) ==
    Item(ChainTrait(call.macro), call.names[1], call.names[1],
         IF IsTry(call.macro) THEN call.err ELSE NoPath,
         IF call.macro \in {"migrate_toml_chain", "try_migrate_toml_chain"}
         THEN "toml::Deserializer::new"
         ELSE call.deser)

\* The impls of the structs after the first, each with the struct before it
\* as predecessor.
LinkImpls(call) ==
    [j \in 1..(Len(call.names) - 1) |->
        Item(ChainTrait(call.macro), call.names[j + 1], call.names[j],
             IF IsTry(call.macro) THEN "OfPrior" ELSE NoPath, "OfPrior")]

\* The arguments are written in the order of the macro's base case.
InBaseOrder(call) == call.order = Keys(call.macro)

\* The expansion of a chain macro is that of a linear chain, and that of a
\* link macro is the links alone.
LinearChain ==
    LET call == expansion.call
        chain == ChainImpls(expansion.items)
    IN  /\ expansion.pc = "expanded" =>
              /\ chain = IF IsLinkMacro(call.macro)
                         THEN LinkImpls(call)
                         ELSE <<RootImpl(call)>> \o LinkImpls(call)
              /\ Len(chain) = IF IsLinkMacro(call.macro)
                              THEN Len(call.names) - 1
                              ELSE Len(call.names)
              /\ \A j \in 1..Len(chain) :
                    chain[j].prior = chain[j].struct
                        <=> (j = 1 /\ ~IsLinkMacro(call.macro))
              /\ OtherImpls(expansion.items) =
                    IF IsTry(call.macro) /\ ~IsLinkMacro(call.macro)
                    THEN <<Item("From<Infallible>", call.err, NoPath, NoPath, NoPath)>>
                    ELSE <<>>
        /\ expansion.pc = "error" =>
              /\ expansion.items = <<>>
              /\ IsLinkMacro(call.macro) => Len(call.names) = 1
              /\ ~IsLinkMacro(call.macro) => ~InBaseOrder(call)
        /\ (expansion.pc = "expanding" /\ IsLinkMacro(call.macro)) =>
              \A j \in 1..Len(expansion.items) :
                  expansion.items[j].struct # call.names[1]

Keyed(macro) == Len(Keys(macro)) > 1

\* The invocation with the same arguments in the order of the macro's base
\* case and no comma after the last.
InCanonicalOrder(call) ==
    Written(call.macro, Keys(call.macro), call.names, call.err, call.deser, FALSE)

\* C28.  Argument order does not matter for the chain macros: every
\* invocation of try_migrate_deserializer_chain!, try_migrate_toml_chain! and
\* migrate_deserializer_chain!, with its keyed arguments in whatever order,
\* on one struct or several, with or without a comma after the last
\* argument, is accepted and expands to the items the same arguments expand
\* to in the order error, deserializer, chain.
C28_ArgumentOrderIrrelevant ==
    (expansion.pc \in {"expanded", "error"} /\ Keyed(expansion.call.macro)) =>
        /\ expansion.pc = "expanded"
        /\ ExpandAll(<<InCanonicalOrder(expansion.call)>>, <<>>)
              = [ok |-> TRUE, items |-> expansion.items]

\* The error inside every box and struct around it.
RECURSIVE Wrapped(_)
Wrapped(x) == IF x.kind = "error" THEN x ELSE Wrapped(x.inner)

\* C29.  MigrateError preserves the wrapped error: the MigrateError made
\* from an error value e prints e's Display and e's Debug output, and so
\* does the boxed error made from that MigrateError, whatever auto traits
\* the box is declared with; the error inside either of them is e itself.
C29_MigrateErrorPreserves ==
    magic.pc \in {"wrapped", "boxed"} =>
        /\ magic.held.kind = IF magic.pc = "wrapped" THEN "MagicError" ELSE "BoxDyn"
        /\ DisplayFmt(magic.held) = magic.error.display
        /\ DebugFmt(magic.held) = magic.error.debug
        /\ Wrapped(magic.held) = magic.error
        /\ magic.display \in {NoOutput, magic.error.display}
        /\ magic.debug \in {NoOutput, magic.error.debug}

\* C29 happens: an error whose Debug output differs from its Display output
\* went into a MigrateError and on into a box, and the box printed both.
C29_Witness ==
    /\ magic.pc = "boxed"
    /\ magic.error.display # magic.error.debug
    /\ magic.display = magic.error.display
    /\ magic.debug = magic.error.debug

====
